---------------------------- MODULE Spec2Model ----------------------------
(***************************************************************************)
(* Verification model of the JSON formatter's comment store, comment       *)
(* synchronizer, JSON validator, formatter and structure analyzer, of the  *)
(* processor service and the comment service that wrap them, of the        *)
(* format request handler and of the JSONProcessor of json_formatter.py.   *)
(*                                                                         *)
(* Python strings are sequences of one-character strings, so that the      *)
(* operations that look at characters (strip, the JSON scanner) are        *)
(* modelled on characters.  Optional values are sequences of length 0      *)
(* (None) or 1 (present).                                                  *)
(***************************************************************************)
EXTENDS Integers, Sequences, FiniteSets, TLC

VARIABLES
    storage,    \* SessionCommentStorage._storage: session id -> list of str
    last,       \* the call that returned last: operation, arguments, result
    thr,        \* concurrent requests: each thread's call, position, locals
    doc         \* a JSONData object: raw_data, _validation_result, ...

vars == <<storage, last, thr, doc>>

-----------------------------------------------------------------------------
(* Bounds of the model *)

\* longest comment list passed to save, and largest synchronize target
MaxLen == 2

-----------------------------------------------------------------------------
(* Python values *)

PyNone == [t |-> "None"]
PyStr(s) == [t |-> "str", v |-> s]
PyInt(n) == [t |-> "int", v |-> n]
PyList(xs) == [t |-> "list", v |-> xs]

\* Optional[...]: None and a present value
None == <<>>
Some(x) == <<x>>

Digits == <<"0", "1", "2", "3", "4", "5", "6", "7", "8", "9">>

RECURSIVE NatToStr(_)
NatToStr(n) ==
    IF n < 10 THEN <<Digits[n + 1]>>
    ELSE NatToStr(n \div 10) \o <<Digits[(n % 10) + 1]>>

\* str(x) of a Python value
PyToStr(x) ==
    CASE x.t = "str" -> x.v
      [] x.t = "int" -> IF x.v < 0 THEN <<"-">> \o NatToStr(-x.v) ELSE NatToStr(x.v)
      [] x.t = "None" -> <<"N", "o", "n", "e">>

\* str.isspace() of one character, as str.strip() uses it
IsSpace(c) == c \in {" ", "\t", "\n", "\r", "\f", "U+0085", "LS"}

RECURSIVE LStrip(_)
LStrip(s) == IF s # <<>> /\ IsSpace(Head(s)) THEN LStrip(Tail(s)) ELSE s

RECURSIVE RStrip(_)
RStrip(s) ==
    IF s # <<>> /\ IsSpace(s[Len(s)]) THEN RStrip(SubSeq(s, 1, Len(s) - 1)) ELSE s

\* mutant: nothing is stripped
Strip_nothing(s) == s

\* str.strip()
Strip(s) == RStrip(LStrip(s))

\* Python truth value of a str: "not s" is true of the empty string
Falsy(s) == Len(s) = 0

\* All sequences over S of length at most n
SeqsUpTo(S, n) == UNION {[1..k -> S] : k \in 0..n}

-----------------------------------------------------------------------------
(* Inputs *)

EmptySid == <<>>
BlankSid == <<" ">>
SidA == <<"s", "1">>
SidB == <<"s", "2">>

\* session ids handed to the store, and to the service
StorageSids == {EmptySid, SidA, SidB}
ServiceSids == StorageSids \cup {BlankSid}

\* the strings of the comment lists
Strs == {<<"1">>, <<>>}

\* the "comments" argument of save: every list of strings up to MaxLen, lists
\* with an absent element or an element that is not a string, and two values
\* that are no list
StrLists == {PyList([i \in 1..Len(xs) |-> PyStr(xs[i])]) : xs \in SeqsUpTo(Strs, MaxLen)}
OddLists == {PyList(<<PyNone>>), PyList(<<PyStr(<<"1">>), PyNone>>),
             PyList(<<PyInt(1)>>), PyList(<<PyInt(1), PyStr(<<>>)>>)}
NoLists == {PyNone, PyStr(<<"1">>)}
SaveArgs == StrLists \cup OddLists \cup NoLists

-----------------------------------------------------------------------------
(* SessionCommentStorage *)

\* the comprehension of save_comments: str(comment), and "" for None
CleanComments(xs) ==
    [i \in 1..Len(xs) |-> IF xs[i].t # "None" THEN PyToStr(xs[i]) ELSE <<>>]

\* mutant: the new comments are appended to the stored ones
SetItem_append(st, sid, clean) ==
    [k \in (DOMAIN st) \cup {sid} |->
        IF k = sid THEN (IF sid \in DOMAIN st THEN st[sid] ELSE <<>>) \o clean ELSE st[k]]

\* self._storage[session_id] = clean_comments
SetItem(st, sid, clean) ==
    [k \in (DOMAIN st) \cup {sid} |-> IF k = sid THEN clean ELSE st[k]]

\* del self._storage[session_id]
DelItem(st, sid) == [k \in (DOMAIN st) \ {sid} |-> st[k]]

\* mutant: the entry is reset before the argument is checked
save_comments_reset_first(st, sid, comments) ==
    IF Falsy(sid) THEN [storage |-> st, ret |-> FALSE]
    ELSE IF comments.t # "list" THEN [storage |-> SetItem(st, sid, <<>>), ret |-> FALSE]
    ELSE [storage |-> SetItem(st, sid, CleanComments(comments.v)), ret |-> TRUE]

\* mutant: one list shared by all sessions
save_comments_shared(st, sid, comments) ==
    IF Falsy(sid) THEN [storage |-> st, ret |-> FALSE]
    ELSE IF comments.t # "list" THEN [storage |-> st, ret |-> FALSE]
    ELSE [storage |-> [k \in (DOMAIN st) \cup {sid} |-> CleanComments(comments.v)],
          ret |-> TRUE]

\* save_comments(session_id, comments): the new _storage and the result
save_comments(st, sid, comments) ==
    IF Falsy(sid) THEN [storage |-> st, ret |-> FALSE]
    ELSE IF comments.t # "list" THEN [storage |-> st, ret |-> FALSE]
    ELSE [storage |-> SetItem(st, sid, CleanComments(comments.v)), ret |-> TRUE]

\* load_comments(session_id): self._storage.get(session_id, [])
load_comments(st, sid) ==
    IF Falsy(sid) THEN <<>>
    ELSE IF sid \in DOMAIN st THEN st[sid] ELSE <<>>

\* whether load_comments returns the stored list object itself
load_is_stored_object(st, sid) == ~Falsy(sid) /\ sid \in DOMAIN st

\* mutant: clearing a session that has no entry fails
clear_comments_strict(st, sid) ==
    IF Falsy(sid) THEN [storage |-> st, ret |-> FALSE]
    ELSE IF sid \in DOMAIN st THEN [storage |-> DelItem(st, sid), ret |-> TRUE]
    ELSE [storage |-> st, ret |-> FALSE]

\* clear_comments(session_id)
clear_comments(st, sid) ==
    IF Falsy(sid) THEN [storage |-> st, ret |-> FALSE]
    ELSE IF sid \in DOMAIN st THEN [storage |-> DelItem(st, sid), ret |-> TRUE]
    ELSE [storage |-> st, ret |-> TRUE]

\* mutant: an entry with no comments counts as existing
session_exists_key_only(st, sid) ==
    IF Falsy(sid) THEN FALSE
    ELSE sid \in DOMAIN st

\* session_exists(session_id)
session_exists(st, sid) ==
    IF Falsy(sid) THEN FALSE
    ELSE sid \in DOMAIN st /\ Len(st[sid]) > 0

-----------------------------------------------------------------------------
(* CommentService *)

\* mutant: only the empty session id is refused
BadSessionId_empty_only(sid) == Falsy(sid)

\* "not session_id or not session_id.strip()"
BadSessionId(sid) == Falsy(sid) \/ Falsy(Strip(sid))

\* a list of str as the Python value handed to the store
StrList(xs) == PyList([i \in 1..Len(xs) |-> PyStr(xs[i])])

\* [""] * k
EmptyStrings(k) == [i \in 1..k |-> <<>>]

\* current_comments + [""] * (json_line_count - current_count)
PadComments(current, n) == current \o EmptyStrings(n - Len(current))

\* mutant: the last entries are kept instead of the first
TruncateComments_keep_last(current, n) ==
    SubSeq(current, Len(current) - n + 1, Len(current))

\* current_comments[:json_line_count], for 0 <= json_line_count
TruncateComments(current, n) == SubSeq(current, 1, n)

\* the result of the storage save, as synchronize reports it
SyncSaved(r) ==
    [storage |-> r.storage, ret |-> IF r.ret THEN "True" ELSE "ProcessingError"]

\* synchronize_with_json_lines(session_id, json_line_count)
synchronize_with_json_lines(st, sid, n) ==
    IF BadSessionId(sid) THEN [storage |-> st, ret |-> "ValidationError"]
    ELSE IF n < 0 THEN [storage |-> st, ret |-> "ValidationError"]
    ELSE LET current == load_comments(st, sid)
         IN  IF Len(current) = n THEN [storage |-> st, ret |-> "True"]
             ELSE IF Len(current) < n
                  THEN SyncSaved(save_comments(st, sid, StrList(PadComments(current, n))))
                  ELSE SyncSaved(save_comments(st, sid, StrList(TruncateComments(current, n))))

-----------------------------------------------------------------------------
(* The store and the synchronizer, one call at a time *)

BoolStr(b) == IF b THEN "True" ELSE "False"

\* the record of a call that has returned.  before: what load_comments gave
\* for the session when the call started.  ref: the list object the caller
\* holds afterwards: "stored" when it is the object inside _storage.
Call(op, sid, arg, ret, val, before, r) ==
    [op |-> op, sid |-> sid, arg |-> arg, ret |-> ret, val |-> val,
     before |-> before, ref |-> r]

NoCall == Call("init", EmptySid, PyNone, "None", <<>>, <<>>, "none")

\* lst.append(x) on a list the caller holds
ListAppend(lst, x) == Append(lst, x)

StorageSave(sid, comments) ==
    LET r == save_comments(storage, sid, comments)
    IN  /\ storage' = r.storage
        /\ last' = Call("save", sid, comments, BoolStr(r.ret), <<>>,
                        load_comments(storage, sid),
                        IF comments.t = "list" THEN "own" ELSE "none")
        /\ UNCHANGED <<thr, doc>>

StorageLoad(sid) ==
    /\ last' = Call("load", sid, PyNone, "list", load_comments(storage, sid),
                    load_comments(storage, sid),
                    IF load_is_stored_object(storage, sid) THEN "stored" ELSE "own")
    /\ UNCHANGED <<storage, thr, doc>>

StorageClear(sid) ==
    LET r == clear_comments(storage, sid)
    IN  /\ storage' = r.storage
        /\ last' = Call("clear", sid, PyNone, BoolStr(r.ret), <<>>,
                        load_comments(storage, sid), "none")
        /\ UNCHANGED <<thr, doc>>

StorageExists(sid) ==
    /\ last' = Call("exists", sid, PyNone, BoolStr(session_exists(storage, sid)),
                    <<>>, load_comments(storage, sid), "none")
    /\ UNCHANGED <<storage, thr, doc>>

Synchronize(sid, n) ==
    LET r == synchronize_with_json_lines(storage, sid, n)
    IN  /\ storage' = r.storage
        /\ last' = Call("sync", sid, PyInt(n), r.ret, <<>>,
                        load_comments(storage, sid), "none")
        /\ UNCHANGED <<thr, doc>>

\* The caller appends to the list object it got from load, or to the list it
\* passed to save.  The object from load is the stored object when the
\* session had an entry; the store kept its own copy of a list passed to save.
CallerMutate(x) ==
    /\ last.op \in {"load", "save", "mutate"}
    /\ last.ref \in {"own", "stored"}
    /\ Len(load_comments(storage, last.sid)) < MaxLen
    /\ storage' = IF last.ref = "stored"
                  THEN SetItem(storage, last.sid, ListAppend(storage[last.sid], x))
                  ELSE storage
    /\ last' = Call("mutate", last.sid, PyStr(x), "None", <<>>,
                    load_comments(storage, last.sid), last.ref)
    /\ UNCHANGED <<thr, doc>>

ThrIdle == <<>>
DocIdle == [raw_data |-> <<>>, _parsed_data |-> <<>>, _validation_result |-> <<>>]

Init ==
    /\ storage = <<>>
    /\ last = NoCall
    /\ thr = ThrIdle
    /\ doc = DocIdle

Next ==
    \/ \E sid \in StorageSids, c \in SaveArgs : StorageSave(sid, c)
    \/ \E sid \in StorageSids : StorageLoad(sid)
    \/ \E sid \in StorageSids : StorageClear(sid)
    \/ \E sid \in StorageSids : StorageExists(sid)
    \/ \E sid \in ServiceSids, n \in 0..MaxLen : Synchronize(sid, n)
    \/ CallerMutate(<<"1">>)

Spec == Init /\ [][Next]_vars

-----------------------------------------------------------------------------
(* Properties of the store and the synchronizer *)

\* what synchronize must leave stored, given the comments C it found and n
SyncResultOk(C, n, R) ==
    /\ Len(R) = n
    /\ \A i \in 1..n : IF i <= Len(C) THEN R[i] = C[i] ELSE R[i] = <<>>
    /\ (Len(C) = n => R = C)

\* C1 as stated: for every non-empty session id and every n >= 0,
\* synchronize_with_json_lines returns success and leaves exactly n entries:
\* the first min(len(C), n) entries of C in order, then empty strings.
C1_SyncEveryNonEmptySid ==
    (last.op = "sync" /\ ~Falsy(last.sid) /\ last.arg.v >= 0) =>
        /\ last.ret = "True"
        /\ SyncResultOk(last.before, last.arg.v, load_comments(storage, last.sid))

\* C1 amended: the same for every session id that is not empty and not made
\* of whitespace only (a whitespace-only id is refused with ValidationError).
C1_SyncPadsOrTruncates ==
    (last.op = "sync" /\ ~BadSessionId(last.sid) /\ last.arg.v >= 0) =>
        /\ last.ret = "True"
        /\ SyncResultOk(last.before, last.arg.v, load_comments(storage, last.sid))

\* C1 witness: one stored comment was padded to two entries.
C1_Witness ==
    /\ last.op = "sync" /\ last.sid = SidA /\ last.ret = "True"
    /\ last.before = << <<"1">> >> /\ last.arg.v = 2
    /\ storage[SidA] = << <<"1">>, <<>> >>

\* C2: after save_comments(sid, L) returned true for a non-empty sid and a
\* list of strings L, load_comments(sid) is L entry for entry, whatever was
\* stored before.
C2_SaveReplaces ==
    (last.op = "save" /\ last.ret = "True" /\ ~Falsy(last.sid)
        /\ last.arg \in StrLists) =>
        LET L == last.arg.v
            R == load_comments(storage, last.sid)
        IN  /\ Len(R) = Len(L)
            /\ \A i \in 1..Len(L) : R[i] = L[i].v

\* C2 witness: a save of two strings replaced a different stored sequence.
C2_Witness ==
    /\ last.op = "save" /\ last.sid = SidA /\ last.ret = "True"
    /\ last.before = << <<"1">> >>
    /\ last.arg = PyList(<<PyStr(<<>>), PyStr(<<"1">>)>>)
    /\ storage[SidA] = << <<>>, <<"1">> >>

\* C3: session_exists(sid) is true exactly when load_comments(sid) is not
\* empty; it is false for an empty id, after a save of [] and after a clear,
\* true after a save of one comment; load of an unknown or empty id is [].
C3_ExistsIffNonEmpty ==
    /\ \A sid \in ServiceSids :
          session_exists(storage, sid) <=> (Len(load_comments(storage, sid)) > 0)
    /\ \A sid \in ServiceSids :
          (Falsy(sid) \/ sid \notin DOMAIN storage) => load_comments(storage, sid) = <<>>
    /\ (last.op = "save" /\ last.ret = "True" /\ last.arg = PyList(<<>>))
          => ~session_exists(storage, last.sid)
    /\ (last.op = "save" /\ last.ret = "True" /\ last.arg = PyList(<<PyStr(<<"1">>)>>))
          => session_exists(storage, last.sid)
    /\ (last.op = "clear" /\ last.ret = "True") => ~session_exists(storage, last.sid)
    /\ (last.op = "exists") =>
          (last.ret = BoolStr(Len(load_comments(storage, last.sid)) > 0))

\* C3 witness: a session saved with zero comments has an entry and is
\* reported as not existing.
C3_Witness ==
    /\ last.op = "save" /\ last.ret = "True" /\ last.arg = PyList(<<>>)
    /\ last.sid \in DOMAIN storage
    /\ last.before # <<>>
    /\ ~session_exists(storage, last.sid)

\* C4: clear_comments of a non-empty sid returns success whether or not
\* anything is stored, leaves load empty and exists false, and a second clear
\* returns success again and changes nothing.
C4_ClearIdempotent ==
    (last.op = "clear" /\ ~Falsy(last.sid)) =>
        /\ last.ret = "True"
        /\ load_comments(storage, last.sid) = <<>>
        /\ ~session_exists(storage, last.sid)
        /\ clear_comments(storage, last.sid) = [storage |-> storage, ret |-> TRUE]

\* C4 witness: a clear of a session with nothing stored returned success.
C4_Witness ==
    /\ last.op = "clear" /\ last.sid = SidA /\ last.ret = "True"
    /\ last.before = <<>>
    /\ SidB \in DOMAIN storage

\* C5: a call for one session leaves every other session's entry (whether it
\* is there, and its comments) as it was.
C5_NoCrossSession ==
    [][\A b \in ServiceSids :
          (b # last'.sid) =>
              /\ (b \in DOMAIN storage') <=> (b \in DOMAIN storage)
              /\ load_comments(storage', b) = load_comments(storage, b)]_vars

\* C5 witness: synchronize rewrote one session while the other held comments.
C5_Witness ==
    /\ last.op = "sync" /\ last.sid = SidA /\ last.ret = "True"
    /\ last.before # load_comments(storage, SidA)
    /\ load_comments(storage, SidB) = << <<"1">>, <<>> >>

\* "lines is a sequence of strings", an absent element being tolerated
IsSeqOfStrings(arg) ==
    /\ arg.t = "list"
    /\ \A i \in 1..Len(arg.v) : arg.v[i].t \in {"str", "None"}

\* what save stores for an element: "" for None, else its str()
StoredFor(e) == IF e.t = "None" THEN <<>> ELSE PyToStr(e)

\* C7 as stated: save returns false and changes nothing when the session id
\* is empty or lines is not a sequence of strings.
C7_RejectsNonStringSequences ==
    [][(last'.op = "save" /\ (Falsy(last'.sid) \/ ~IsSeqOfStrings(last'.arg))) =>
          (last'.ret = "False" /\ storage' = storage)]_vars

\* C7 amended: save returns false and changes nothing when the session id is
\* empty or lines is not a list; a list with a non-empty id is accepted
\* whatever its elements are: None is stored as "", any other element as its
\* str().
C7_RejectsNonLists ==
    [][(last'.op = "save") =>
          IF Falsy(last'.sid) \/ last'.arg.t # "list"
          THEN last'.ret = "False" /\ storage' = storage
          ELSE /\ last'.ret = "True"
               /\ Len(storage'[last'.sid]) = Len(last'.arg.v)
               /\ \A i \in 1..Len(last'.arg.v) :
                     storage'[last'.sid][i] = StoredFor(last'.arg.v[i])]_vars

\* C7 witness: a save of a value that is no list was refused and the stored
\* comments of the session are still there.
C7_Witness ==
    /\ last.op = "save" /\ last.sid = SidA /\ last.ret = "False"
    /\ last.arg = PyNone
    /\ last.before = << <<"1">>, <<>> >>
    /\ storage[SidA] = last.before

\* C8: a caller that changes the list it got from load, or the list it passed
\* to save, does not change what load returns for the session.
C8_CallerCannotMutate ==
    (last.op = "mutate") => load_comments(storage, last.sid) = last.before

-----------------------------------------------------------------------------
(* The store under concurrent requests.  Each request thread makes one     *)
(* call on the session SidA of the shared store; a step is one access to   *)
(* the _storage dict (a dict lookup, assignment or deletion is atomic in   *)
(* the interpreter), together with the thread-local work around it.        *)

Savers == {"save1", "save2"}
Loader == "load"
Clearer == "clear"
Threads == Savers \cup {Loader, Clearer}

\* a thread: position, the clean_comments it built, its result, the list it
\* loaded, and whether its del removed the entry
Thread(pc, clean, ret, val, deleted) ==
    [pc |-> pc, clean |-> clean, ret |-> ret, val |-> val, deleted |-> deleted]

ThreadIdle == Thread("idle", <<>>, "None", <<>>, FALSE)

\* save_comments up to the assignment: the checks and the comprehension
SaveBegin(t, comments) ==
    /\ t \in Savers
    /\ thr[t].pc = "idle"
    /\ thr' = [thr EXCEPT ![t] =
                  IF Falsy(SidA) \/ comments.t # "list"
                  THEN Thread("done", <<>>, "False", <<>>, FALSE)
                  ELSE Thread("built", CleanComments(comments.v), "None", <<>>, FALSE)]
    /\ UNCHANGED <<storage, last, doc>>

\* self._storage[session_id] = clean_comments; return True
SaveAssign(t) ==
    /\ t \in Savers
    /\ thr[t].pc = "built"
    /\ storage' = SetItem(storage, SidA, thr[t].clean)
    /\ thr' = [thr EXCEPT ![t] = Thread("done", thr[t].clean, "True", <<>>, FALSE)]
    /\ UNCHANGED <<last, doc>>

\* load_comments: self._storage.get(session_id, [])
LoadGet(t) ==
    /\ t = Loader
    /\ thr[t].pc = "idle"
    /\ thr' = [thr EXCEPT ![t] =
                  Thread("done", <<>>, "list", load_comments(storage, SidA), FALSE)]
    /\ UNCHANGED <<storage, last, doc>>

\* clear_comments: "if session_id in self._storage"
ClearTest(t) ==
    /\ t = Clearer
    /\ thr[t].pc = "idle"
    /\ thr' = [thr EXCEPT ![t] =
                  IF SidA \in DOMAIN storage
                  THEN Thread("tested", <<>>, "None", <<>>, FALSE)
                  ELSE Thread("done", <<>>, "True", <<>>, FALSE)]
    /\ UNCHANGED <<storage, last, doc>>

\* clear_comments: "del self._storage[session_id]"; a KeyError is caught and
\* the call returns False
ClearDel(t) ==
    /\ t = Clearer
    /\ thr[t].pc = "tested"
    /\ storage' = IF SidA \in DOMAIN storage THEN DelItem(storage, SidA) ELSE storage
    /\ thr' = [thr EXCEPT ![t] =
                  IF SidA \in DOMAIN storage
                  THEN Thread("done", <<>>, "True", <<>>, TRUE)
                  ELSE Thread("done", <<>>, "False", <<>>, FALSE)]
    /\ UNCHANGED <<last, doc>>

ConcInit ==
    /\ storage = <<>>
    /\ last = NoCall
    /\ thr = [t \in Threads |-> ThreadIdle]
    /\ doc = DocIdle

ConcNext ==
    \/ \E t \in Threads, c \in StrLists : SaveBegin(t, c)
    \/ \E t \in Threads : SaveAssign(t)
    \/ \E t \in Threads : LoadGet(t)
    \/ \E t \in Threads : ClearTest(t)
    \/ \E t \in Threads : ClearDel(t)

ConcSpec == ConcInit /\ [][ConcNext]_vars

\* the sequences whose assignment to _storage has happened
Assigned == {thr[t].clean : t \in {u \in Savers : thr[u].pc = "done" /\ thr[u].ret = "True"}}

AllReturned == \A t \in Threads : thr[t].pc = "done"

\* C6: with two saves, a load and a clear of one session running
\* concurrently, the load returns in full a sequence that was saved, or the
\* empty sequence; and once every call has returned the stored sequence is
\* that of one of the two saves, unless the clear removed the entry.
C6_AtomicLastWriterWins ==
    /\ (thr[Loader].pc = "done") => (thr[Loader].val \in Assigned \cup {<<>>})
    /\ (SidA \in DOMAIN storage) => (storage[SidA] \in Assigned)
    /\ AllReturned =>
          /\ \A t \in Savers : thr[t].ret = "True"
          /\ IF SidA \in DOMAIN storage
             THEN storage[SidA] \in {thr[t].clean : t \in Savers}
             ELSE thr[Clearer].deleted

\* C6 witness: both saves returned, the load saw the first saved sequence
\* and the second one is stored.
C6_Witness ==
    /\ AllReturned
    /\ thr["save1"].clean = << <<"1">>, <<>> >>
    /\ thr["save2"].clean = << <<>>, <<"1">> >>
    /\ thr[Loader].val = << <<"1">>, <<>> >>
    /\ storage[SidA] = << <<>>, <<"1">> >>
    /\ thr[Clearer].deleted

-----------------------------------------------------------------------------
(* json.loads as JSONData.validate calls it.  Positions are Python's:      *)
(* 0-based indexes into the text.                                          *)

Min(a, b) == IF a < b THEN a ELSE b

\* s[i:i+1]: the character at i, or "" past the end
At(s, i) == IF i >= 0 /\ i < Len(s) THEN s[i + 1] ELSE ""

\* s[a:b]
Slice(s, a, b) == SubSeq(s, a + 1, Min(b, Len(s)))

\* WHITESPACE_STR
IsWs(c) == c \in {" ", "\t", "\n", "\r"}

\* WHITESPACE.match(s, i).end(): the end of the run of whitespace at i
RECURSIVE W(_, _)
W(s, i) ==
    IF i >= Len(s) THEN Len(s)
    ELSE IF IsWs(At(s, i)) THEN W(s, i + 1) ELSE i

IsDigit(c) == c \in {"0", "1", "2", "3", "4", "5", "6", "7", "8", "9"}

DigitVal(c) == CHOOSE d \in 0..9 : Digits[d + 1] = c

\* the end of the run of digits at i
RECURSIVE DigitsEnd(_, _)
DigitsEnd(s, i) == IF IsDigit(At(s, i)) THEN DigitsEnd(s, i + 1) ELSE i

\* int() of a run of digits
RECURSIVE DigitsToNat(_)
DigitsToNat(ds) ==
    IF ds = <<>> THEN 0
    ELSE 10 * DigitsToNat(SubSeq(ds, 1, Len(ds) - 1)) + DigitVal(ds[Len(ds)])

\* A float, as the decimal number its shortest repr writes: the digits d
\* without leading or trailing zeros and the position p of the decimal point,
\* so that the value is 0.d * 10^p (zero: no digits).  Decimal texts of at
\* most 15 significant digits and doubles correspond one to one, which covers
\* every number the texts of the model can write.
Finite(neg, d, p) == [k |-> "fin", neg |-> neg, d |-> d, p |-> p]

\* _CONSTANTS: float('nan'), float('inf'), float('-inf')
FloatConstant(name) ==
    [k |-> IF name = "NaN" THEN "nan" ELSE "inf",
     neg |-> (name = "-Infinity"), d |-> <<>>, p |-> 0]

RECURSIVE StripLeadingZeros(_)
StripLeadingZeros(d) ==
    IF d # <<>> /\ Head(d) = "0" THEN StripLeadingZeros(Tail(d)) ELSE d

RECURSIVE StripTrailingZeros(_)
StripTrailingZeros(d) ==
    IF d # <<>> /\ d[Len(d)] = "0"
    THEN StripTrailingZeros(SubSeq(d, 1, Len(d) - 1)) ELSE d

\* float(lexeme) of a lexeme that NUMBER_RE matched: [-]int[.frac][e[+-]exp]
float(lexeme) ==
    LET neg == At(lexeme, 0) = "-"
        i0 == IF neg THEN 1 ELSE 0
        i1 == DigitsEnd(lexeme, i0)
        f1 == IF At(lexeme, i1) = "." THEN DigitsEnd(lexeme, i1 + 1) ELSE i1
        frac == IF f1 > i1 THEN Slice(lexeme, i1 + 1, f1) ELSE <<>>
        eneg == At(lexeme, f1 + 1) = "-"
        e0 == IF At(lexeme, f1 + 1) \in {"+", "-"} THEN f1 + 2 ELSE f1 + 1
        exp == IF f1 < Len(lexeme)
               THEN (IF eneg THEN -1 ELSE 1) * DigitsToNat(Slice(lexeme, e0, Len(lexeme)))
               ELSE 0
        all == Slice(lexeme, i0, i1) \o frac
        lead == StripLeadingZeros(all)
        d == StripTrailingZeros(lead)
    IN  IF d = <<>> THEN Finite(neg, <<>>, 0)
        ELSE Finite(neg, d, Len(lead) - Len(frac) + exp)

\* the values json.loads builds
JNull == [t |-> "null"]
JBool(b) == [t |-> "bool", v |-> b]
JInt(n) == [t |-> "int", v |-> n]
JFloat(lexeme) == [t |-> "float", v |-> float(lexeme)]
JConst(name) == [t |-> "float", v |-> FloatConstant(name)]
JStr(chars) == [t |-> "str", v |-> chars]
JList(xs) == [t |-> "list", v |-> xs]
JDict(pairs) == [t |-> "dict", v |-> pairs]

\* the outcome of a scan: a value and the index after it, or an exception
Scanned(val, end) ==
    [ok |-> TRUE, val |-> val, end |-> end, exc |-> "", msg |-> "", pos |-> 0]
Raised(exc, msg, pos) ==
    [ok |-> FALSE, val |-> JNull, end |-> 0, exc |-> exc, msg |-> msg, pos |-> pos]
DecodeError(msg, pos) == Raised("JSONDecodeError", msg, pos)
StopIteration(pos) == Raised("StopIteration", "", pos)

\* "except StopIteration as err: raise JSONDecodeError('Expecting value', s, err.value)"
ExpectingValue(r) ==
    IF ~r.ok /\ r.exc = "StopIteration" THEN DecodeError("Expecting value", r.pos) ELSE r

\* NUMBER_RE.match(s, i): the ends of the integer, fraction and exponent
\* parts, or no match (ok = FALSE)
MatchNumber(s, i) ==
    LET j == IF At(s, i) = "-" THEN i + 1 ELSE i
        intEnd == IF At(s, j) = "0" THEN j + 1
                  ELSE IF IsDigit(At(s, j)) THEN DigitsEnd(s, j)
                  ELSE j
        fracEnd == IF At(s, intEnd) = "." /\ IsDigit(At(s, intEnd + 1))
                   THEN DigitsEnd(s, intEnd + 1) ELSE intEnd
        k == IF At(s, fracEnd + 1) \in {"+", "-"} THEN fracEnd + 2 ELSE fracEnd + 1
        expEnd == IF At(s, fracEnd) \in {"e", "E"} /\ IsDigit(At(s, k))
                  THEN DigitsEnd(s, k) ELSE fracEnd
    IN  [ok |-> intEnd > j, neg |-> j > i, digits |-> Slice(s, j, intEnd),
         intEnd |-> intEnd, end |-> expEnd]

\* the number scanned: parse_int of the integer part, or parse_float
NumberValue(s, i, m) ==
    IF m.end = m.intEnd
    THEN JInt(IF m.neg THEN -DigitsToNat(m.digits) ELSE DigitsToNat(m.digits))
    ELSE JFloat(Slice(s, i, m.end))

\* BACKSLASH: the one-character escapes
Backslash == [c \in {"\"", "\\", "/", "b", "f", "n", "r", "t"} |->
                 CASE c = "b" -> "BS" [] c = "f" -> "\f" [] c = "n" -> "\n"
                   [] c = "r" -> "\r" [] c = "t" -> "\t" [] OTHER -> c]

HexDigits == <<"0", "1", "2", "3", "4", "5", "6", "7", "8", "9",
               "a", "b", "c", "d", "e", "f">>
UpperHex == [c \in {"A", "B", "C", "D", "E", "F"} |->
                CASE c = "A" -> "a" [] c = "B" -> "b" [] c = "C" -> "c"
                  [] c = "D" -> "d" [] c = "E" -> "e" [] c = "F" -> "f"]
IsHex(c) == c \in {HexDigits[i] : i \in 1..16} \cup DOMAIN UpperHex
HexVal(c) ==
    LET l == IF c \in DOMAIN UpperHex THEN UpperHex[c] ELSE c
    IN  (CHOOSE i \in 1..16 : HexDigits[i] = l) - 1

\* _decode_uXXXX: the code point of four hex digits (ok = FALSE otherwise)
DecodeU(esc) ==
    IF Len(esc) = 4 /\ \A i \in 1..4 : IsHex(esc[i])
    THEN [ok |-> TRUE,
          cp |-> 4096 * HexVal(esc[1]) + 256 * HexVal(esc[2])
                 + 16 * HexVal(esc[3]) + HexVal(esc[4])]
    ELSE [ok |-> FALSE, cp |-> 0]

\* chr(uni), for the code points the model's texts name
Chr(cp) ==
    CASE cp = 10 -> "\n" [] cp = 34 -> "\"" [] cp = 48 -> "0" [] cp = 49 -> "1"
      [] cp = 92 -> "\\" [] cp = 97 -> "a" [] cp = 8232 -> "LS"
      [] cp = 1 -> "U+0001" [] cp = 98 -> "b" [] cp = 133 -> "U+0085"
      [] cp = 233 -> "U+00E9"
      [] OTHER -> "U+"

\* a literal control character, which a strict scanstring refuses
IsControl(c) == c \in {"\n", "\r", "\t", "BS", "\f", "U+0001"}

\* scanstring(s, end): the string that starts after the quote at begin
RECURSIVE ScanChunks(_, _, _, _)
ScanChunks(s, pos, begin, acc) ==
    LET c == At(s, pos)
    IN  IF pos >= Len(s) THEN DecodeError("Unterminated string starting at", begin)
        ELSE IF c = "\"" THEN Scanned(JStr(acc), pos + 1)
        ELSE IF IsControl(c) THEN DecodeError("Invalid control character at", pos)
        ELSE IF c = "\\"
             THEN IF pos + 1 >= Len(s)
                  THEN DecodeError("Unterminated string starting at", begin)
                  ELSE IF At(s, pos + 1) = "u"
                  THEN LET u == DecodeU(Slice(s, pos + 2, pos + 6))
                       IN  IF u.ok
                           THEN ScanChunks(s, pos + 6, begin, Append(acc, Chr(u.cp)))
                           ELSE DecodeError("Invalid \\uXXXX escape", pos + 1)
                  ELSE IF At(s, pos + 1) \in DOMAIN Backslash
                  THEN ScanChunks(s, pos + 2, begin, Append(acc, Backslash[At(s, pos + 1)]))
                  ELSE DecodeError("Invalid \\escape", pos)
        ELSE ScanChunks(s, pos + 1, begin, Append(acc, c))

scanstring(s, end) == ScanChunks(s, end, end - 1, <<>>)

\* dict(pairs): a repeated key keeps its first place and takes the last value
RECURSIVE DictOf(_)
DictOf(pairs) ==
    IF pairs = <<>> THEN <<>>
    ELSE LET init == DictOf(SubSeq(pairs, 1, Len(pairs) - 1))
             p == pairs[Len(pairs)]
         IN  IF \E i \in 1..Len(init) : init[i][1] = p[1]
             THEN [i \in 1..Len(init) |-> IF init[i][1] = p[1] THEN p ELSE init[i]]
             ELSE Append(init, p)

RECURSIVE scan_once(_, _)
RECURSIVE ObjectPairs(_, _, _)
RECURSIVE ArrayItems(_, _, _)

\* the loop of JSONObject, at the index after the quote that opens a key
ObjectPairs(s, end0, pairs) ==
    LET key == scanstring(s, end0)
    IN  IF ~key.ok THEN key
        ELSE
        LET colon == IF At(s, key.end) # ":" THEN W(s, key.end) ELSE key.end
        IN  IF At(s, colon) # ":" THEN DecodeError("Expecting ':' delimiter", colon)
            ELSE
            LET value == ExpectingValue(scan_once(s, W(s, colon + 1)))
            IN  IF ~value.ok THEN value
                ELSE
                LET end1 == W(s, value.end)
                    nextchar == At(s, end1)
                    all == Append(pairs, <<key.val.v, value.val>>)
                IN  IF nextchar = "}" THEN Scanned(JDict(DictOf(all)), end1 + 1)
                    ELSE IF nextchar # ","
                    THEN DecodeError("Expecting ',' delimiter", end1)
                    ELSE LET end2 == W(s, end1 + 1)
                         IN  IF At(s, end2) # "\""
                             THEN DecodeError(
                                 "Expecting property name enclosed in double quotes", end2)
                             ELSE ObjectPairs(s, end2 + 1, all)

\* JSONObject((s, end)): end is the index after the brace
JSONObject(s, end0) ==
    LET end1 == IF At(s, end0) # "\"" THEN W(s, end0) ELSE end0
        nextchar == At(s, end1)
    IN  IF nextchar = "}" THEN Scanned(JDict(<<>>), end1 + 1)
        ELSE IF nextchar # "\""
        THEN DecodeError("Expecting property name enclosed in double quotes", end1)
        ELSE ObjectPairs(s, end1 + 1, <<>>)

\* the loop of JSONArray, at the index where the next value starts
ArrayItems(s, end0, values) ==
    LET value == ExpectingValue(scan_once(s, end0))
    IN  IF ~value.ok THEN value
        ELSE
        LET end1 == W(s, value.end)
            nextchar == At(s, end1)
        IN  IF nextchar = "]" THEN Scanned(JList(Append(values, value.val)), end1 + 1)
            ELSE IF nextchar # "," THEN DecodeError("Expecting ',' delimiter", end1)
            ELSE ArrayItems(s, W(s, end1 + 1), Append(values, value.val))

\* JSONArray((s, end)): end is the index after the bracket
JSONArray(s, end0) ==
    LET end1 == W(s, end0)
    IN  IF At(s, end1) = "]" THEN Scanned(JList(<<>>), end1 + 1)
        ELSE ArrayItems(s, end1, <<>>)

\* scan_once(string, idx)
scan_once(s, idx) ==
    LET nextchar == At(s, idx)
        m == MatchNumber(s, idx)
    IN  IF idx >= Len(s) THEN StopIteration(idx)
        ELSE IF nextchar = "\"" THEN scanstring(s, idx + 1)
        ELSE IF nextchar = "{" THEN JSONObject(s, idx + 1)
        ELSE IF nextchar = "[" THEN JSONArray(s, idx + 1)
        ELSE IF nextchar = "n" /\ Slice(s, idx, idx + 4) = <<"n", "u", "l", "l">>
        THEN Scanned(JNull, idx + 4)
        ELSE IF nextchar = "t" /\ Slice(s, idx, idx + 4) = <<"t", "r", "u", "e">>
        THEN Scanned(JBool(TRUE), idx + 4)
        ELSE IF nextchar = "f" /\ Slice(s, idx, idx + 5) = <<"f", "a", "l", "s", "e">>
        THEN Scanned(JBool(FALSE), idx + 5)
        ELSE IF m.ok THEN Scanned(NumberValue(s, idx, m), m.end)
        ELSE IF nextchar = "N" /\ Slice(s, idx, idx + 3) = <<"N", "a", "N">>
        THEN Scanned(JConst("NaN"), idx + 3)
        ELSE IF nextchar = "I"
                /\ Slice(s, idx, idx + 8) = <<"I", "n", "f", "i", "n", "i", "t", "y">>
        THEN Scanned(JConst("Infinity"), idx + 8)
        ELSE IF nextchar = "-"
                /\ Slice(s, idx, idx + 9) = <<"-", "I", "n", "f", "i", "n", "i", "t", "y">>
        THEN Scanned(JConst("-Infinity"), idx + 9)
        ELSE StopIteration(idx)

\* mutant: whitespace after the value counts as extra data
decode_no_trailing_ws(s) ==
    LET end(r) == IF ~r.ok THEN r
                  ELSE IF r.end # Len(s) THEN DecodeError("Extra data", r.end)
                  ELSE r
    IN  end(ExpectingValue(scan_once(s, W(s, 0))))

\* JSONDecoder.decode(s): raw_decode after the leading whitespace, then
\* nothing but whitespace may follow
decode(s) ==
    LET end(r) == IF ~r.ok THEN r
                  ELSE IF W(s, r.end) # Len(s)
                  THEN DecodeError("Extra data", W(s, r.end))
                  ELSE r
    IN  end(ExpectingValue(scan_once(s, W(s, 0))))

\* json.loads(s) of a str
loads(s) ==
    IF At(s, 0) = "BOM"
    THEN DecodeError("Unexpected UTF-8 BOM (decode using utf-8-sig)", 0)
    ELSE decode(s)

\* JSONDecodeError.lineno: doc.count("\n", 0, pos) + 1
LineNo(s, pos) == Cardinality({i \in 1..Min(pos, Len(s)) : s[i] = "\n"}) + 1

\* JSONDecodeError.colno: pos - doc.rindex("\n", 0, pos), or pos + 1
ColNo(s, pos) ==
    LET nl == {i \in 1..Min(pos, Len(s)) : s[i] = "\n"}
    IN  IF nl = {} THEN pos + 1
        ELSE pos - ((CHOOSE i \in nl : \A j \in nl : j <= i) - 1)

-----------------------------------------------------------------------------
(* JSONData *)

\* JSONValidationResult(is_valid, error_message, line_number)
JSONValidationResult(is_valid, error_message, line_number) ==
    [is_valid |-> is_valid, error_message |-> error_message,
     line_number |-> line_number]

\* "Input cannot be empty"
EmptyInputMessage == [text |-> "Input cannot be empty"]

\* f"Invalid JSON at line {e.lineno} column {e.colno}: {e.msg}": the
\* template with the values it is filled with
InvalidJsonMessage(lineno, colno, msg) ==
    [text |-> "Invalid JSON at line {lineno} column {colno}: {msg}",
     lineno |-> lineno, colno |-> colno, msg |-> msg]

\* JSONData(raw_data): the object and its cached fields
JSONData(raw_data, parsed, result) ==
    [raw_data |-> raw_data, _parsed_data |-> parsed, _validation_result |-> result]

\* validate() of an object whose result is not cached yet: the new
\* _parsed_data and _validation_result
validate_result(raw) ==
    IF Falsy(raw) \/ Falsy(Strip(raw))
    THEN [parsed |-> None, loads_calls |-> 0,
          result |-> JSONValidationResult(FALSE, Some(EmptyInputMessage), None)]
    ELSE LET outcome(r) ==
                 IF r.ok
                 THEN [parsed |-> Some(r.val), loads_calls |-> 1,
                       result |-> JSONValidationResult(TRUE, None, None)]
                 ELSE [parsed |-> None, loads_calls |-> 1,
                       result |-> JSONValidationResult(FALSE,
                           Some(InvalidJsonMessage(LineNo(raw, r.pos),
                                                   ColNo(raw, r.pos), r.msg)),
                           Some(LineNo(raw, r.pos)))]
         IN  outcome(loads(raw))

-----------------------------------------------------------------------------
(* json.dumps(parsed_data, indent=indent, sort_keys=sort_keys,             *)
(* ensure_ascii=False): the pure-Python encoder, which an indent selects   *)

\* ord(c) of the characters that strings of the model hold
ord(c) ==
    CASE c = "U+0001" -> 1 [] c = "BS" -> 8 [] c = "\t" -> 9 [] c = "\n" -> 10
      [] c = "\f" -> 12 [] c = "\r" -> 13 [] c = " " -> 32 [] c = "\"" -> 34
      [] c = "/" -> 47 [] c = "0" -> 48 [] c = "1" -> 49 [] c = "B" -> 66
      [] c = "\\" -> 92 [] c = "a" -> 97 [] c = "b" -> 98 [] c = "u" -> 117
      [] c = "U+0085" -> 133 [] c = "U+00E9" -> 233 [] c = "LS" -> 8232
      [] OTHER -> 65533

\* mutant: the reverse order
RECURSIVE StrLess_descending(_, _)
StrLess_descending(a, b) ==
    IF a = <<>> THEN FALSE
    ELSE IF b = <<>> THEN TRUE
    ELSE IF Head(a) = Head(b) THEN StrLess_descending(Tail(a), Tail(b))
    ELSE ord(Head(a)) > ord(Head(b))

\* str < str: by code points, a proper prefix first
RECURSIVE StrLess(_, _)
StrLess(a, b) ==
    IF b = <<>> THEN FALSE
    ELSE IF a = <<>> THEN TRUE
    ELSE IF Head(a) = Head(b) THEN StrLess(Tail(a), Tail(b))
    ELSE ord(Head(a)) < ord(Head(b))

\* sorted(dct.items()): the keys of a dict are distinct, so the pairs are
\* ordered by their keys
RECURSIVE Insert(_, _)
Insert(sortedItems, item) ==
    IF sortedItems = <<>> THEN <<item>>
    ELSE IF StrLess(item[1], Head(sortedItems)[1]) THEN <<item>> \o sortedItems
    ELSE <<Head(sortedItems)>> \o Insert(Tail(sortedItems), item)

RECURSIVE sorted(_)
sorted(items) ==
    IF items = <<>> THEN <<>>
    ELSE Insert(sorted(SubSeq(items, 1, Len(items) - 1)), items[Len(items)])

\* ' ' * n
RECURSIVE Spaces(_)
Spaces(n) == IF n <= 0 THEN <<>> ELSE <<" ">> \o Spaces(n - 1)

RECURSIVE Zeros(_)
Zeros(n) == IF n <= 0 THEN <<>> ELSE <<"0">> \o Zeros(n - 1)

\* mutant: nothing is escaped
EscapeChar_literal(c) == <<c>>

\* ESCAPE_DCT: the replacement of a character that ESCAPE matches
EscapeChar(c) ==
    CASE c = "\"" -> <<"\\", "\"">> [] c = "\\" -> <<"\\", "\\">>
      [] c = "\n" -> <<"\\", "n">> [] c = "\r" -> <<"\\", "r">>
      [] c = "\t" -> <<"\\", "t">> [] c = "BS" -> <<"\\", "b">>
      [] c = "\f" -> <<"\\", "f">>
      [] c = "U+0001" -> <<"\\", "u", "0", "0", "0", "1">>
      [] OTHER -> <<c>>

\* encode_basestring(s): the string in quotes, ESCAPE's characters replaced;
\* every other character, non-ASCII included, is written as it is
RECURSIVE EscapeAll(_)
EscapeAll(chars) ==
    IF chars = <<>> THEN <<>> ELSE EscapeChar(Head(chars)) \o EscapeAll(Tail(chars))

encode_basestring(chars) == <<"\"">> \o EscapeAll(chars) \o <<"\"">>

\* int.__repr__
int_repr(n) == IF n < 0 THEN <<"-">> \o NatToStr(-n) ELSE NatToStr(n)

\* the exponent of float.__repr__: a sign and at least two digits
ExponentStr(e) ==
    (IF e < 0 THEN <<"-">> ELSE <<"+">>)
    \o (IF e < 10 /\ e > -10 THEN <<"0">> ELSE <<>>)
    \o NatToStr(IF e < 0 THEN -e ELSE e)

\* float.__repr__ of a finite float: the shortest digits, in fixed notation
\* when the decimal point is in -4 < p <= 16, otherwise with an exponent
float_repr(f) ==
    LET k == Len(f.d)
        sign == IF f.neg THEN <<"-">> ELSE <<>>
    IN  sign \o
        (IF k = 0 THEN <<"0", ".", "0">>
         ELSE IF f.p > 16 \/ f.p <= -4
         THEN <<f.d[1]>> \o (IF k > 1 THEN <<".">> \o SubSeq(f.d, 2, k) ELSE <<>>)
              \o <<"e">> \o ExponentStr(f.p - 1)
         ELSE IF f.p <= 0 THEN <<"0", ".">> \o Zeros(-f.p) \o f.d
         ELSE IF f.p >= k THEN f.d \o Zeros(f.p - k) \o <<".", "0">>
         ELSE SubSeq(f.d, 1, f.p) \o <<".">> \o SubSeq(f.d, f.p + 1, k))

\* floatstr(o): allow_nan is left at its default, True
floatstr(f) ==
    IF f.k = "nan" THEN <<"N", "a", "N">>
    ELSE IF f.k = "inf"
    THEN (IF f.neg THEN <<"-">> ELSE <<>>) \o <<"I", "n", "f", "i", "n", "i", "t", "y">>
    ELSE float_repr(f)

RECURSIVE iterencode(_, _, _, _)
RECURSIVE JoinItems(_, _, _, _, _)
RECURSIVE JoinPairs(_, _, _, _, _)

\* the items of a list, separated by item_separator + newline_indent
JoinItems(xs, sep, indent, sort_keys, level) ==
    IF xs = <<>> THEN <<>>
    ELSE iterencode(Head(xs), indent, sort_keys, level)
         \o (IF Len(xs) > 1 THEN sep ELSE <<>>)
         \o JoinItems(Tail(xs), sep, indent, sort_keys, level)

\* the items of a dict: key, key_separator ': ', value
JoinPairs(items, sep, indent, sort_keys, level) ==
    IF items = <<>> THEN <<>>
    ELSE encode_basestring(Head(items)[1]) \o <<":", " ">>
         \o iterencode(Head(items)[2], indent, sort_keys, level)
         \o (IF Len(items) > 1 THEN sep ELSE <<>>)
         \o JoinPairs(Tail(items), sep, indent, sort_keys, level)

\* _iterencode(o, _current_indent_level), the chunks joined; an int indent
\* stands for that many spaces (none when it is not positive)
iterencode(o, indent, sort_keys, level) ==
    LET newline_indent == <<"\n">> \o Spaces(indent * (level + 1))
        closing == <<"\n">> \o Spaces(indent * level)
    IN  CASE o.t = "str" -> encode_basestring(o.v)
          [] o.t = "null" -> <<"n", "u", "l", "l">>
          [] o.t = "bool" -> IF o.v THEN <<"t", "r", "u", "e">>
                             ELSE <<"f", "a", "l", "s", "e">>
          [] o.t = "int" -> int_repr(o.v)
          [] o.t = "float" -> floatstr(o.v)
          [] o.t = "list" ->
                IF o.v = <<>> THEN <<"[", "]">>
                ELSE <<"[">> \o newline_indent
                     \o JoinItems(o.v, <<",">> \o newline_indent, indent, sort_keys, level + 1)
                     \o closing \o <<"]">>
          [] o.t = "dict" ->
                IF o.v = <<>> THEN <<"{", "}">>
                ELSE <<"{">> \o newline_indent
                     \o JoinPairs(IF sort_keys THEN sorted(o.v) ELSE o.v,
                                  <<",">> \o newline_indent, indent, sort_keys, level + 1)
                     \o closing \o <<"}">>

\* json.dumps(obj, indent=indent, sort_keys=sort_keys, ensure_ascii=False)
dumps(obj, indent, sort_keys) == iterencode(obj, indent, sort_keys, 0)

\* the line boundaries of str.splitlines() among the model's characters
IsLineBoundary(c) == c \in {"\n", "\r", "\f", "U+0085", "LS"}

\* str.splitlines(): the lines without their ends; "\r\n" is one boundary
\* and a boundary at the very end opens no further line
RECURSIVE SplitFrom(_, _, _)
SplitFrom(s, i, line) ==
    IF i > Len(s) THEN (IF line = <<>> THEN <<>> ELSE <<line>>)
    ELSE IF IsLineBoundary(s[i])
    THEN <<line>> \o SplitFrom(s, IF s[i] = "\r" /\ i < Len(s) /\ s[i + 1] = "\n"
                                  THEN i + 2 ELSE i + 1, <<>>)
    ELSE SplitFrom(s, i + 1, Append(line, s[i]))

splitlines(s) == SplitFrom(s, 1, <<>>)

-----------------------------------------------------------------------------
(* JSONData.parse, JSONData.format, JSONData.get_structure_info *)

\* how a call ends: it returns a value or raises an exception with a message
Returns(self, val) ==
    [self |-> self, raised |-> FALSE, exc |-> "", msg |-> None, val |-> Some(val)]
Raises(self, exc, msg) ==
    [self |-> self, raised |-> TRUE, exc |-> exc, msg |-> Some(msg), val |-> None]

\* JSONFormatResult(success, formatted_json, error_message, line_count)
JSONFormatResult(success, formatted_json, error_message, line_count) ==
    [success |-> success, formatted_json |-> formatted_json,
     error_message |-> error_message, line_count |-> line_count]

\* validate(): the cached result, or the result computed and cached
validate(self) ==
    IF self._validation_result # None
    THEN Returns(self, self._validation_result[1])
    ELSE LET cached(r) ==
                 Returns(JSONData(self.raw_data, r.parsed, Some(r.result)), r.result)
         IN  cached(validate_result(self.raw_data))

\* "self._parsed_data is not None": the parse of the text null leaves None
ParsedIsNotNone(self) == self._parsed_data # None /\ self._parsed_data[1] # JNull

\* mutant: an invalid text parses as null
parse_lenient(self) ==
    LET repaired(v) ==
            IF ~v.val[1].is_valid THEN Returns(v.self, JNull)
            ELSE Returns(v.self, v.self._parsed_data[1])
    IN  repaired(validate(self))

\* parse(): ValueError(error_message) for an invalid text, else the parsed
\* data, parsed once more when _parsed_data is None
parse(self) ==
    LET checked(v) ==
            IF ~v.val[1].is_valid
            THEN Raises(v.self, "ValueError", v.val[1].error_message[1])
            ELSE IF ParsedIsNotNone(v.self)
            THEN Returns(v.self, v.self._parsed_data[1])
            ELSE LET again(r) ==
                         IF r.ok THEN Returns(v.self, r.val)
                         ELSE Raises(v.self, "ValueError",
                                     [text |-> "JSON parsing error: {e}", pos |-> r.pos,
                                      msg |-> r.msg])
                 IN  again(loads(v.self.raw_data))
    IN  checked(validate(self))

\* mutant: allow_nan=False
allow_nan_off == FALSE

\* json.dumps is called without allow_nan, which is True by default
allow_nan == TRUE

\* floatstr raises ValueError for nan, inf and -inf when allow_nan is false
RECURSIVE HasNonFinite(_)
HasNonFinite(o) ==
    CASE o.t = "float" -> o.v.k # "fin"
      [] o.t = "list" -> \E i \in 1..Len(o.v) : HasNonFinite(o.v[i])
      [] o.t = "dict" -> \E i \in 1..Len(o.v) : HasNonFinite(o.v[i][2])
      [] OTHER -> FALSE

OutOfRangeFloat == [text |-> "Out of range float values are not JSON compliant"]

\* a float handed over as an argument
PyFloat(lexeme) == [t |-> "float", v |-> float(lexeme)]

\* the encoder computes ' ' * indent: TypeError for a float
IndentTypeError(indent) == indent.t = "float"

UnexpectedFormattingError ==
    [text |-> "Unexpected error during formatting: {e}",
     e |-> "can't multiply sequence by non-int of type 'float'"]

\* format(indent, sort_keys); indent is the Python value of the argument
format(self, indent, sort_keys) ==
    LET formatted(p) ==
            IF p.raised
            THEN Returns(p.self, JSONFormatResult(FALSE, None, p.msg, 0))
            ELSE IF IndentTypeError(indent)
            THEN Returns(p.self,
                         JSONFormatResult(FALSE, None, Some(UnexpectedFormattingError), 0))
            ELSE IF ~allow_nan /\ HasNonFinite(p.val[1])
            THEN Returns(p.self, JSONFormatResult(FALSE, None, Some(OutOfRangeFloat), 0))
            ELSE LET counted(formatted_json) ==
                         JSONFormatResult(TRUE, Some(formatted_json), None,
                                          Len(splitlines(formatted_json)))
                 IN  Returns(p.self, counted(dumps(p.val[1], indent.v, sort_keys)))
    IN  formatted(parse(self))

\* type(item).__name__
TypeName(o) ==
    CASE o.t = "null" -> "NoneType" [] o.t = "bool" -> "bool" [] o.t = "int" -> "int"
      [] o.t = "float" -> "float" [] o.t = "str" -> "str" [] o.t = "list" -> "list"
      [] o.t = "dict" -> "dict"

\* data[:10] and list(data.keys())[:50]
SampleSize == 10
KeysCap == 50

\* mutant: the whole list
Take_all(xs, n) == xs

\* xs[:n]
Take(xs, n) == SubSeq(xs, 1, Min(n, Len(xs)))

\* get_structure_info(): the dict it returns, as a record; item_types, a
\* list made from a set, is the set of its elements
get_structure_info(self) ==
    LET info(p) ==
            IF p.raised
            THEN Returns(p.self, [valid |-> FALSE, error |-> p.msg[1]])
            ELSE LET data == p.val[1]
                 IN  Returns(p.self,
                       IF data.t = "dict"
                       THEN [valid |-> TRUE, type |-> TypeName(data),
                             is_object |-> TRUE, is_array |-> FALSE, is_primitive |-> FALSE,
                             key_count |-> Len(data.v),
                             keys |-> Take([i \in 1..Len(data.v) |-> data.v[i][1]], KeysCap)]
                       ELSE IF data.t = "list"
                       THEN [valid |-> TRUE, type |-> TypeName(data),
                             is_object |-> FALSE, is_array |-> TRUE, is_primitive |-> FALSE,
                             item_count |-> Len(data.v),
                             item_types |-> {TypeName(Take(data.v, SampleSize)[i]) :
                                                i \in DOMAIN Take(data.v, SampleSize)}]
                       ELSE [valid |-> TRUE, type |-> TypeName(data),
                             is_object |-> FALSE, is_array |-> FALSE, is_primitive |-> TRUE])
    IN  info(parse(self))

-----------------------------------------------------------------------------
(* utils.validators *)

\* get_json_type_name(data): the JSON name of a value's type
get_json_type_name(o) ==
    CASE o.t = "null" -> "null" [] o.t = "bool" -> "boolean" [] o.t = "int" -> "integer"
      [] o.t = "float" -> "number" [] o.t = "str" -> "string" [] o.t = "list" -> "array"
      [] o.t = "dict" -> "object"

-----------------------------------------------------------------------------
(* JSONProcessorService *)

ValidationError(text) == Raises(None, "ValidationError", [text |-> text])

\* the checks that open format_json, validate_json and get_json_info
InputNotString(raw_json) == raw_json.t # "str"
InputError(raw_json) ==
    IF raw_json.t = "None" THEN ValidationError("Input cannot be None")
    ELSE ValidationError("Input must be a string")

\* mutant: a failed format result is returned
format_json_returns(raw_json, indent, sort_keys) ==
    IF InputNotString(raw_json) THEN InputError(raw_json)
    ELSE IF Len(Strip(raw_json.v)) = 0 THEN ValidationError("Input cannot be empty")
    ELSE format(JSONData(raw_json.v, None, None), indent, sort_keys)

\* format_json(raw_json, indent, sort_keys)
format_json(raw_json, indent, sort_keys) ==
    IF InputNotString(raw_json) THEN InputError(raw_json)
    ELSE IF Len(Strip(raw_json.v)) = 0 THEN ValidationError("Input cannot be empty")
    ELSE LET checked(f) ==
                 IF f.val[1].success THEN f
                 ELSE Raises(f.self, "ValidationError", f.val[1].error_message[1])
         IN  checked(format(JSONData(raw_json.v, None, None), indent, sort_keys))

\* validate_json(raw_json)
validate_json(raw_json) ==
    IF InputNotString(raw_json) THEN InputError(raw_json)
    ELSE validate(JSONData(raw_json.v, None, None))

\* get_json_info(raw_json): the structure info; the three entries it adds
\* (raw_length, raw_lines, processed_by) describe the text alone
get_json_info(raw_json) ==
    IF InputNotString(raw_json) THEN InputError(raw_json)
    ELSE get_structure_info(JSONData(raw_json.v, None, None))

\* the result dict of process_json_safely
ProcessResult(success, validation, formatted_json, structure_info, error_message, steps) ==
    [success |-> success, validation |-> validation, formatted_json |-> formatted_json,
     structure_info |-> structure_info, error_message |-> error_message,
     processing_steps |-> steps]

\* mutant: a text that is not valid leaves no error message
StoppedAtValidation_silent(v) ==
    ProcessResult(FALSE, Some(v), None, None, None, <<"validation">>)

\* the return after step 1 for a text that is not valid
StoppedAtValidation(v) ==
    ProcessResult(FALSE, Some(v), None, None, v.error_message, <<"validation">>)

\* process_json_safely(raw_json, indent, sort_keys): the three steps; an
\* exception of a step is caught and its message becomes error_message
process_json_safely(raw_json, indent, sort_keys) ==
    LET analysed(v, f, a) ==
            IF a.raised
            THEN ProcessResult(FALSE, Some(v), Some(f), None, a.msg,
                               <<"validation", "formatting">>)
            ELSE ProcessResult(TRUE, Some(v), Some(f), Some(a.val[1]), None,
                               <<"validation", "formatting", "analysis">>)
        formatted(v, f) ==
            IF f.raised
            THEN ProcessResult(FALSE, Some(v), None, None, f.msg, <<"validation">>)
            ELSE IF ~f.val[1].success
            THEN ProcessResult(FALSE, Some(v), Some(f.val[1]), None,
                               f.val[1].error_message, <<"validation", "formatting">>)
            ELSE analysed(v, f.val[1], get_json_info(raw_json))
        validated(v) ==
            IF v.raised
            THEN ProcessResult(FALSE, None, None, None, v.msg, <<>>)
            ELSE IF ~v.val[1].is_valid THEN StoppedAtValidation(v.val[1])
            ELSE formatted(v.val[1], format_json(raw_json, indent, sort_keys))
    IN  Returns(None, validated(validate_json(raw_json)))

-----------------------------------------------------------------------------
(* json_formatter.py: the module functions validate_json and               *)
(* parse_json_safely, and JSONProcessor.validate_json, parse_json and      *)
(* get_json_info.  An error message is a template with the values it is    *)
(* filled with; "" is the template with no text.                           *)

NoMessage == [text |-> ""]

\* validate_json(raw_json): (is_valid, error_message)
legacy_validate_json(raw_json) ==
    IF Falsy(raw_json) \/ Falsy(Strip(raw_json))
    THEN [is_valid |-> FALSE, error_message |-> [text |-> "Input cannot be empty"]]
    ELSE LET outcome(r) ==
                 IF r.ok THEN [is_valid |-> TRUE, error_message |-> NoMessage]
                 ELSE [is_valid |-> FALSE,
                       error_message |-> [text |-> "Invalid JSON: {e}", msg |-> r.msg,
                                          pos |-> r.pos]]
         IN  outcome(loads(raw_json))

\* parse_json_safely(raw_json): (parsed_object, error_message); the parsed
\* object of the text null is None
parse_json_safely(raw_json) ==
    LET parsed(v) ==
            IF ~v.is_valid THEN [parsed_object |-> JNull, error_message |-> v.error_message]
            ELSE [parsed_object |-> loads(raw_json).val, error_message |-> NoMessage]
    IN  parsed(legacy_validate_json(raw_json))

\* JSONProcessor.validate_json(raw_json)
JSONProcessor_validate_json(raw_json) ==
    IF raw_json.t = "None"
    THEN [is_valid |-> FALSE, error_message |-> [text |-> "Input cannot be None"]]
    ELSE IF raw_json.t # "str"
    THEN [is_valid |-> FALSE, error_message |-> [text |-> "Input must be a string"]]
    ELSE legacy_validate_json(raw_json.v)

\* JSONProcessor.parse_json(raw_json): "if parsed_data is not None"
JSONProcessor_parse_json(raw_json) ==
    IF raw_json.t = "None"
    THEN [success |-> FALSE, data |-> JNull,
          error_message |-> [text |-> "Input cannot be None"]]
    ELSE IF raw_json.t # "str"
    THEN [success |-> FALSE, data |-> JNull,
          error_message |-> [text |-> "Input must be a string"]]
    ELSE LET result(p) ==
                 IF p.parsed_object # JNull
                 THEN [success |-> TRUE, data |-> p.parsed_object,
                       error_message |-> NoMessage]
                 ELSE [success |-> FALSE, data |-> JNull,
                       error_message |-> p.error_message]
         IN  result(parse_json_safely(raw_json.v))

\* JSONProcessor.get_json_info(raw_json)
JSONProcessor_get_json_info(raw_json) ==
    LET info(r) ==
            IF ~r.success
            THEN [success |-> FALSE, info |-> <<>>, error_message |-> r.error_message]
            ELSE [success |-> TRUE,
                  info |-> [type |-> TypeName(r.data), is_object |-> r.data.t = "dict",
                            is_array |-> r.data.t = "list",
                            is_primitive |-> r.data.t \notin {"dict", "list"}],
                  error_message |-> NoMessage]
    IN  info(JSONProcessor_parse_json(raw_json))

-----------------------------------------------------------------------------
(* Texts handed to JSONData *)

\* longest text, in pieces
MaxPieces == 3

Pieces == {
    <<"{">>, <<"}">>, <<"[">>, <<"]">>, <<",">>,
    <<"{", "\"", "a", "\"", ":">>,
    <<"\"", "a", "\"">>, <<"\"">>,
    <<"1">>, <<"0">>, <<"-">>,
    <<"t", "r", "u", "e">>, <<"N", "a", "N">>,
    <<" ">>, <<"\n">> }

RECURSIVE Concat(_)
Concat(ps) == IF ps = <<>> THEN <<>> ELSE Head(ps) \o Concat(Tail(ps))

Texts == {Concat(ps) : ps \in SeqsUpTo(Pieces, MaxPieces)}

\* validate(): the first call parses, later calls return the cached result
Validate ==
    /\ doc._validation_result = None
    /\ LET cached(r) == JSONData(doc.raw_data, r.parsed, Some(r.result))
       IN  doc' = cached(validate_result(doc.raw_data))
    /\ UNCHANGED <<storage, last, thr>>

ValidateAgain ==
    /\ doc._validation_result # None
    /\ doc' = doc
    /\ UNCHANGED <<storage, last, thr>>

JsonInit ==
    /\ storage = <<>>
    /\ last = NoCall
    /\ thr = ThrIdle
    /\ doc \in {JSONData(s, None, None) : s \in Texts}

JsonNext == Validate \/ ValidateAgain

JsonSpec == JsonInit /\ [][JsonNext]_vars

-----------------------------------------------------------------------------
(* Documents handed to format and to the analyzer *)

\* most elements of a generated array, most members of a generated object
MaxItems == 2

\* largest indent
MaxIndent == 2

Indents == 0..MaxIndent

\* indents that are no int: the floats 1.5 and 2.0
OtherIndents == {PyFloat(<<"1", ".", "5">>), PyFloat(<<"2", ".", "0">>)}

RECURSIVE JoinTexts(_, _)
JoinTexts(texts, sep) ==
    IF texts = <<>> THEN <<>>
    ELSE IF Len(texts) = 1 THEN texts[1]
    ELSE texts[1] \o sep \o JoinTexts(Tail(texts), sep)

Quoted(chars) == <<"\"">> \o chars \o <<"\"">>

SmallObjectText ==
    <<"{">> \o Quoted(<<"b">>) \o <<":", "1", ",">> \o Quoted(<<"a">>) \o <<":", "2", "}">>

\* numbers, constants and strings; the strings hold a line separator
\* (escaped and literal), a non-ASCII letter, a next-line character, an
\* escaped newline and an escaped control character
ScalarTexts == {
    <<"1">>, <<"-", "0">>, <<"1", ".", "1", "0">>, <<"1", "e", "1">>,
    <<"0", ".", "0", "1">>, <<"N", "a", "N">>, <<"t", "r", "u", "e">>,
    <<"n", "u", "l", "l">>, Quoted(<<>>), Quoted(<<"a">>),
    Quoted(<<"\\", "u", "2", "0", "2", "8">>), Quoted(<<"a", "LS">>),
    Quoted(<<"U+00E9">>), Quoted(<<"U+0085", "a">>), Quoted(<<"\\", "n">>),
    Quoted(<<"\\", "u", "0", "0", "0", "1">>) }

ElementTexts == {<<"1">>, Quoted(<<"a">>), <<"N", "a", "N">>, SmallObjectText}

ArrayTexts ==
    {<<"[">> \o JoinTexts(items, <<",">>) \o <<"]">> :
        items \in SeqsUpTo(ElementTexts, MaxItems)}

KeyTexts == {Quoted(<<"b">>), Quoted(<<"a">>), Quoted(<<"a", "b">>)}

MemberTexts ==
    {k \o <<":">> \o v : k \in KeyTexts, v \in {<<"1">>, SmallObjectText}}

ObjectTexts ==
    {<<"{">> \o JoinTexts(members, <<",">>) \o <<"}">> :
        members \in SeqsUpTo(MemberTexts, MaxItems)}

RECURSIVE Repeat(_, _)
Repeat(x, n) == IF n <= 0 THEN <<>> ELSE <<x>> \o Repeat(x, n - 1)

\* arrays about as long as the analyzer's sample: a run of one element,
\* then up to MaxItems elements of other types
LongArrayTexts ==
    {<<"[">> \o JoinTexts(Repeat(x, n) \o tail, <<",">>) \o <<"]">> :
        x \in {<<"1">>, Quoted(<<"a">>)},
        n \in (SampleSize - 1)..SampleSize,
        tail \in SeqsUpTo({<<"t", "r", "u", "e">>, <<"[", "]">>}, MaxItems)}

\* empty, blank and malformed texts
BadTexts == {
    <<>>, <<" ">>, <<" ", "\n", "\t">>, <<"LS">>, <<"\f", " ">>,
    <<"{">> \o Quoted(<<"k">>) \o <<":", " ">> \o Quoted(<<"v">>),
    <<"[", "1", ",", "]">>, <<"1", " ", "1">>, <<"\n", "\n", "}">>,
    <<"LS", "1">>, <<"{", "a", ":", "1", "}">>, Quoted(<<"\n">>) }

\* well-formed texts with whitespace around and inside
SpacedTexts == {
    <<" ", "[", "1", ",", " ", "1", "]", "\n">>,
    <<"{", "\n">> \o Quoted(<<"a">>) \o <<" ", ":", " ", "[", "]", "}">> }

Documents ==
    ScalarTexts \cup ArrayTexts \cup ObjectTexts \cup LongArrayTexts
    \cup BadTexts \cup SpacedTexts

\* what a caller may hand to the service in place of a text
NonStrings == {PyNone, PyInt(1)}

-----------------------------------------------------------------------------
(* Calls of JSONData and of JSONProcessorService on a document.  A document *)
(* is validated or not, then formatted or analyzed, and a formatted text    *)
(* is formatted once more; the service, which keeps nothing between calls,  *)
(* is called on the text of a document that nothing was called on yet.      *)

NothingCalled == last.op = "init"
NotFormatted == last.op \in {"init", "validate"}

\* validate()
DataValidate ==
    /\ LET done(r) ==
               /\ doc' = r.self
               /\ last' = [op |-> "validate", raw |-> doc.raw_data, out |-> r,
                           loads_calls |->
                               IF doc._validation_result # None THEN 0
                               ELSE validate_result(doc.raw_data).loads_calls]
       IN  done(validate(doc))
    /\ UNCHANGED <<storage, thr>>

\* format(indent, sort_keys)
DataFormat(indent, sort_keys) ==
    /\ NotFormatted
    /\ LET done(r) ==
               /\ doc' = r.self
               /\ last' = [op |-> "format", raw |-> doc.raw_data, indent |-> indent,
                           sort_keys |-> sort_keys, out |-> r]
       IN  done(format(doc, PyInt(indent), sort_keys))
    /\ UNCHANGED <<storage, thr>>

\* format(indent, sort_keys) of a new JSONData made of the text that the
\* last format returned
FormatFormatted ==
    /\ last.op = "format"
    /\ last.out.val[1].success
    /\ LET done(r) ==
               last' = [op |-> "format again", raw |-> last.raw, indent |-> last.indent,
                        sort_keys |-> last.sort_keys, first |-> last.out.val[1],
                        parsed |-> doc._parsed_data[1], out |-> r]
       IN  done(format(JSONData(last.out.val[1].formatted_json[1], None, None),
                       PyInt(last.indent), last.sort_keys))
    /\ UNCHANGED <<storage, thr, doc>>

\* get_structure_info()
DataAnalyze ==
    /\ NotFormatted
    /\ LET done(r) ==
               /\ doc' = r.self
               /\ last' = [op |-> "get_structure_info", raw |-> doc.raw_data, out |-> r]
       IN  done(get_structure_info(doc))
    /\ UNCHANGED <<storage, thr>>

\* JSONProcessorService.format_json(raw_json, indent, sort_keys)
ServiceFormat(raw_json, indent, sort_keys) ==
    /\ NothingCalled
    /\ last' = [op |-> "format_json", arg |-> raw_json, indent |-> indent,
                sort_keys |-> sort_keys,
                out |-> format_json(raw_json, PyInt(indent), sort_keys)]
    /\ UNCHANGED <<storage, thr, doc>>

\* JSONProcessorService.format_json(raw_json, indent, sort_keys) with an
\* indent that is not an int
ServiceFormatIndent(raw_json, indent, sort_keys) ==
    /\ NothingCalled
    /\ last' = [op |-> "format_json, indent not an int", arg |-> raw_json,
                indent |-> indent, sort_keys |-> sort_keys,
                out |-> format_json(raw_json, indent, sort_keys)]
    /\ UNCHANGED <<storage, thr, doc>>

\* JSONProcessorService.validate_json(raw_json)
ServiceValidate(raw_json) ==
    /\ NothingCalled
    /\ last' = [op |-> "validate_json", arg |-> raw_json, out |-> validate_json(raw_json)]
    /\ UNCHANGED <<storage, thr, doc>>

\* JSONProcessorService.get_json_info(raw_json)
ServiceAnalyze(raw_json) ==
    /\ NothingCalled
    /\ last' = [op |-> "get_json_info", arg |-> raw_json, out |-> get_json_info(raw_json)]
    /\ UNCHANGED <<storage, thr, doc>>

\* JSONProcessorService.process_json_safely(raw_json, indent, sort_keys)
ServiceProcess(raw_json, indent, sort_keys) ==
    /\ NothingCalled
    /\ last' = [op |-> "process_json_safely", arg |-> raw_json, indent |-> indent,
                sort_keys |-> sort_keys,
                out |-> process_json_safely(raw_json, indent, sort_keys)]
    /\ UNCHANGED <<storage, thr, doc>>

\* JSONProcessor.parse_json(raw_json) of json_formatter.py
LegacyParse(raw_json) ==
    /\ NothingCalled
    /\ last' = [op |-> "JSONProcessor.parse_json", arg |-> raw_json,
                out |-> JSONProcessor_parse_json(raw_json)]
    /\ UNCHANGED <<storage, thr, doc>>

\* JSONProcessor.get_json_info(raw_json) of json_formatter.py
LegacyInfo(raw_json) ==
    /\ NothingCalled
    /\ last' = [op |-> "JSONProcessor.get_json_info", arg |-> raw_json,
                out |-> JSONProcessor_get_json_info(raw_json)]
    /\ UNCHANGED <<storage, thr, doc>>

FormatInit ==
    /\ storage = <<>>
    /\ last = NoCall
    /\ thr = ThrIdle
    /\ doc \in {JSONData(s, None, None) : s \in Documents}

FormatNext ==
    \/ DataValidate
    \/ \E indent \in Indents, sort_keys \in BOOLEAN : DataFormat(indent, sort_keys)
    \/ FormatFormatted
    \/ DataAnalyze
    \/ \E raw_json \in NonStrings \cup {PyStr(doc.raw_data)},
          indent \in Indents, sort_keys \in BOOLEAN :
            ServiceFormat(raw_json, indent, sort_keys)
    \/ \E raw_json \in NonStrings \cup {PyStr(doc.raw_data)} : ServiceValidate(raw_json)
    \/ \E raw_json \in NonStrings \cup {PyStr(doc.raw_data)} : ServiceAnalyze(raw_json)

FormatSpec == FormatInit /\ [][FormatNext]_vars

\* the service called with any indent, and its three steps in one call
ProcessNext ==
    \/ \E raw_json \in NonStrings \cup {PyStr(doc.raw_data)},
          indent \in OtherIndents, sort_keys \in BOOLEAN :
            ServiceFormatIndent(raw_json, indent, sort_keys)
    \/ \E raw_json \in NonStrings \cup {PyStr(doc.raw_data)},
          indent \in {PyInt(MaxIndent)} \cup OtherIndents, sort_keys \in BOOLEAN :
            ServiceProcess(raw_json, indent, sort_keys)

ProcessSpec == FormatInit /\ [][ProcessNext]_vars

\* the JSONProcessor of json_formatter.py called on the text of a document
LegacyNext ==
    \/ \E raw_json \in NonStrings \cup {PyStr(doc.raw_data)} : LegacyParse(raw_json)
    \/ \E raw_json \in NonStrings \cup {PyStr(doc.raw_data)} : LegacyInfo(raw_json)

LegacySpec == FormatInit /\ [][LegacyNext]_vars

-----------------------------------------------------------------------------
(* The JSON grammar of RFC 8259, read off the RFC's rules (1-based          *)
(* positions; an end of 0 means "no match").  The validator is compared     *)
(* with this grammar.                                                       *)

RfcAt(s, i) == IF i >= 1 /\ i <= Len(s) THEN s[i] ELSE "EOF"

\* ws = *( space / tab / line feed / carriage return )
RECURSIVE RfcWs(_, _)
RfcWs(s, i) == IF RfcAt(s, i) \in {" ", "\t", "\n", "\r"} THEN RfcWs(s, i + 1) ELSE i

RfcDigit == {"0", "1", "2", "3", "4", "5", "6", "7", "8", "9"}

RECURSIVE RfcDigits(_, _)
RfcDigits(s, i) == IF RfcAt(s, i) \in RfcDigit THEN RfcDigits(s, i + 1) ELSE i

\* number = [ minus ] int [ frac ] [ exp ]
RfcNumber(s, i) ==
    LET a == IF RfcAt(s, i) = "-" THEN i + 1 ELSE i
        b == IF RfcAt(s, a) = "0" THEN a + 1 ELSE RfcDigits(s, a)
        c == IF RfcAt(s, b) = "." /\ RfcDigits(s, b + 1) > b + 1
             THEN RfcDigits(s, b + 1) ELSE b
        d == IF RfcAt(s, c + 1) \in {"+", "-"} THEN c + 2 ELSE c + 1
        e == IF RfcAt(s, c) \in {"e", "E"} /\ RfcDigits(s, d) > d
             THEN RfcDigits(s, d) ELSE c
    IN  IF b > a THEN e ELSE 0

RfcHex == RfcDigit \cup {"a", "b", "c", "d", "e", "f", "A", "B", "C", "D", "E", "F"}

\* the characters of string = quotation-mark *char quotation-mark, from i
RECURSIVE RfcChars(_, _)
RfcChars(s, i) ==
    LET c == RfcAt(s, i)
    IN  IF c = "EOF" THEN 0
        ELSE IF c = "\"" THEN i + 1
        ELSE IF c = "\\"
             THEN IF RfcAt(s, i + 1) \in {"\"", "\\", "/", "b", "f", "n", "r", "t"}
                  THEN RfcChars(s, i + 2)
                  ELSE IF RfcAt(s, i + 1) = "u"
                          /\ \A k \in 2..5 : RfcAt(s, i + k) \in RfcHex
                  THEN RfcChars(s, i + 6)
                  ELSE 0
        ELSE IF c \in {"\n", "\r", "\t", "\f", "BS"} THEN 0
        ELSE RfcChars(s, i + 1)

RfcString(s, i) == IF RfcAt(s, i) = "\"" THEN RfcChars(s, i + 1) ELSE 0

RfcLiteral(s, i, word) ==
    IF i + Len(word) - 1 <= Len(s) /\ SubSeq(s, i, i + Len(word) - 1) = word
    THEN i + Len(word) ELSE 0

RECURSIVE RfcValue(_, _)
RECURSIVE RfcElements(_, _)
RECURSIVE RfcMembers(_, _)

\* value *( ws "," ws value ) ws "]"
RfcElements(s, i) ==
    LET e == RfcValue(s, i)
        j == RfcWs(s, e)
    IN  IF e = 0 THEN 0
        ELSE IF RfcAt(s, j) = "]" THEN j + 1
        ELSE IF RfcAt(s, j) = "," THEN RfcElements(s, RfcWs(s, j + 1))
        ELSE 0

\* member *( ws "," ws member ) ws "}",  member = string ws ":" ws value
RfcMembers(s, i) ==
    LET k == RfcString(s, i)
        c == RfcWs(s, k)
        e == IF k # 0 /\ RfcAt(s, c) = ":" THEN RfcValue(s, RfcWs(s, c + 1)) ELSE 0
        j == RfcWs(s, e)
    IN  IF e = 0 THEN 0
        ELSE IF RfcAt(s, j) = "}" THEN j + 1
        ELSE IF RfcAt(s, j) = "," THEN RfcMembers(s, RfcWs(s, j + 1))
        ELSE 0

\* value = false / null / true / object / array / number / string
RfcValue(s, i) ==
    LET c == RfcAt(s, i)
    IN  IF c = "{"
        THEN IF RfcAt(s, RfcWs(s, i + 1)) = "}" THEN RfcWs(s, i + 1) + 1
             ELSE RfcMembers(s, RfcWs(s, i + 1))
        ELSE IF c = "["
        THEN IF RfcAt(s, RfcWs(s, i + 1)) = "]" THEN RfcWs(s, i + 1) + 1
             ELSE RfcElements(s, RfcWs(s, i + 1))
        ELSE IF c = "\"" THEN RfcString(s, i)
        ELSE IF c = "t" THEN RfcLiteral(s, i, <<"t", "r", "u", "e">>)
        ELSE IF c = "f" THEN RfcLiteral(s, i, <<"f", "a", "l", "s", "e">>)
        ELSE IF c = "n" THEN RfcLiteral(s, i, <<"n", "u", "l", "l">>)
        ELSE RfcNumber(s, i)

\* JSON-text = ws value ws
IsJsonText(s) ==
    LET e == RfcValue(s, RfcWs(s, 1))
    IN  e # 0 /\ RfcWs(s, e) = Len(s) + 1

-----------------------------------------------------------------------------
(* Properties of validate *)

C10_NonJsonIsInvalid ==
    (doc._validation_result # None /\ ~Falsy(doc.raw_data) /\ ~IsJsonText(doc.raw_data)) =>
        LET r == doc._validation_result[1]
        IN  /\ ~r.is_valid
            /\ r.error_message # None
            /\ r.error_message[1].text # ""
            /\ (r.line_number # None) =>
                  /\ r.error_message[1] =
                        InvalidJsonMessage(r.line_number[1],
                                           r.error_message[1].colno,
                                           r.error_message[1].msg)
                  /\ r.error_message[1].msg # ""

-----------------------------------------------------------------------------
(* Properties of validate, format and the analyzer on documents *)

\* the characters that count as whitespace
Blank(s) == \A i \in 1..Len(s) : s[i] \in {" ", "\t", "\n", "\r", "\f", "U+0085", "LS"}

\* C11: for every string that is empty or only whitespace, validate returns
\* is_valid = false, the message "Input cannot be empty" and no line_number,
\* and json.loads is not called.
C11_BlankIsEmptyInput ==
    (last.op = "validate" /\ Blank(last.raw)) =>
        /\ ~last.out.raised
        /\ last.out.val[1] =
              [is_valid |-> FALSE,
               error_message |-> <<[text |-> "Input cannot be empty"]>>,
               line_number |-> <<>>]
        /\ last.loads_calls = 0
        /\ doc._parsed_data = None

\* C11 witness: a text of a space, a newline and a tab was validated.
C11_Witness ==
    /\ last.op = "validate"
    /\ last.raw = <<" ", "\n", "\t">>
    /\ ~last.out.val[1].is_valid

\* C12: for every text that validate finds invalid, and every indent and
\* sort_keys, format returns success = false, no formatted text, line_count 0
\* and the error_message that validate reports.
C12_InvalidIsNotFormatted ==
    (last.op = "format" /\ ~doc._validation_result[1].is_valid) =>
        /\ ~last.out.raised
        /\ last.out.val[1].success = FALSE
        /\ last.out.val[1].formatted_json = None
        /\ last.out.val[1].line_count = 0
        /\ last.out.val[1].error_message = doc._validation_result[1].error_message
        /\ last.out.val[1].error_message # None

\* C12 witness: an object that is not closed was formatted and refused with
\* the position of the error.
C12_Witness ==
    /\ last.op = "format"
    /\ last.raw = <<"{", "\"", "k", "\"", ":", " ", "\"", "v", "\"">>
    /\ ~last.out.val[1].success
    /\ doc._validation_result[1].line_number = <<1>>

\* C13: for every text that validate finds valid, every indent and both
\* values of sort_keys, format returns success = true with formatted text, no
\* error_message and line_count >= 1; and in every format result success is
\* true exactly when the text is present and the message is absent.
C13_ValidIsFormatted ==
    (last.op = "format") =>
        /\ doc._validation_result[1].is_valid =>
              /\ last.out.val[1].success
              /\ last.out.val[1].formatted_json # None
              /\ last.out.val[1].error_message = None
              /\ last.out.val[1].line_count >= 1
        /\ last.out.val[1].success <=>
              (last.out.val[1].formatted_json # None /\ last.out.val[1].error_message = None)

\* C13 witness: an array that holds NaN was formatted with indent 0.
C13_Witness ==
    /\ last.op = "format"
    /\ last.raw = <<"[", "N", "a", "N", "]">>
    /\ last.indent = 0
    /\ last.out.val[1].success
    /\ last.out.val[1].line_count = 3

\* the operations of JSONData and those of the service
DataOps == {"validate", "format", "get_structure_info"}
ServiceOps == {"format_json", "validate_json", "get_json_info"}

\* C14: validate, format and analyze, of JSONData and of the service alike,
\* return a result for every string input and never raise.
C14_OperationsReturn ==
    /\ last.op \in DataOps => ~last.out.raised
    /\ (last.op \in ServiceOps /\ last.arg.t = "str") => ~last.out.raised

\* C14, amended: JSONData.validate, format and get_structure_info and the
\* service's validate_json and get_json_info return a result for every string
\* and report an invalid text in its failure fields; the service's
\* format_json raises ValidationError exactly for the strings that are blank
\* or that validate finds invalid, and returns a result otherwise.
C14_OnlyFormatJsonRaises ==
    /\ last.op \in DataOps =>
          /\ ~last.out.raised
          /\ ~doc._validation_result[1].is_valid =>
                CASE last.op = "validate" ->
                        ~last.out.val[1].is_valid /\ last.out.val[1].error_message # None
                  [] last.op = "format" ->
                        ~last.out.val[1].success /\ last.out.val[1].error_message # None
                  [] last.op = "get_structure_info" ->
                        /\ ~last.out.val[1].valid
                        /\ <<last.out.val[1].error>> = doc._validation_result[1].error_message
    /\ (last.op \in {"validate_json", "get_json_info"} /\ last.arg.t = "str") =>
          ~last.out.raised
    /\ (last.op = "format_json" /\ last.arg.t = "str") =>
          /\ last.out.raised <=>
                (Blank(last.arg.v) \/ ~validate_result(last.arg.v).result.is_valid)
          /\ last.out.raised => last.out.exc = "ValidationError"

\* C14 witness: format_json raised ValidationError for an array with a
\* trailing comma.
C14_Witness ==
    /\ last.op = "format_json"
    /\ last.arg = PyStr(<<"[", "1", ",", "]">>)
    /\ last.out.raised
    /\ last.out.exc = "ValidationError"

\* C15: format_json raises ValidationError for every string that is not
\* valid JSON and for None, non-string, empty and blank input, so that every
\* result it returns has success = true; validate_json returns is_valid =
\* false for a malformed string instead of raising.
C15_FormatJsonRaisesOnNonJson ==
    /\ (last.op = "format_json" /\ (last.arg.t # "str" \/ ~IsJsonText(last.arg.v))) =>
          (last.out.raised /\ last.out.exc = "ValidationError")
    /\ (last.op = "format_json" /\ ~last.out.raised) => last.out.val[1].success
    /\ (last.op = "validate_json" /\ last.arg.t = "str" /\ ~IsJsonText(last.arg.v)) =>
          (~last.out.raised /\ ~last.out.val[1].is_valid)

\* the number of newline characters of a text
Newlines(text) == Cardinality({i \in 1..Len(text) : text[i] = "\n"})

\* C16: for every successful format result, line_count is the number of
\* newline characters of the formatted text plus one, also when string values
\* hold non-ASCII characters that are written literally.
C16_LineCountIsNewlinesPlusOne ==
    (last.op = "format" /\ last.out.val[1].success) =>
        last.out.val[1].line_count = Newlines(last.out.val[1].formatted_json[1]) + 1

\* C17: formatting is idempotent: the formatted text of a text, formatted
\* again with the same indent and sort_keys, is formatted successfully to the
\* same text with the same line_count.
C17_FormatIsIdempotent ==
    (last.op = "format again") =>
        /\ ~last.out.raised
        /\ last.out.val[1].success
        /\ last.out.val[1].formatted_json = last.first.formatted_json
        /\ last.out.val[1].line_count = last.first.line_count

\* C17 witness: an array that holds an object was formatted with sorted keys
\* to a text other than the input, and that text was formatted again.
C17_Witness ==
    /\ last.op = "format again"
    /\ last.raw = <<"[">> \o SmallObjectText \o <<"]">>
    /\ last.sort_keys
    /\ last.indent = 2
    /\ last.first.formatted_json # <<last.raw>>

\* Python's == on the values json.loads returns.  bool, int and float compare
\* as numbers and NaN equals no number; the items of lists and dicts are
\* equal when they are the same object or compare equal, and every NaN that
\* json.loads returns is the one object json.decoder.NaN.
IsNumber(o) == o.t \in {"bool", "int", "float"}
IsNaN(o) == o.t = "float" /\ o.v.k = "nan"

Decimal(o) ==
    CASE o.t = "float" ->
            IF o.v.k = "fin" /\ o.v.d = <<>> THEN Finite(FALSE, <<>>, 0) ELSE o.v
      [] o.t = "int" ->
            IF o.v = 0 THEN Finite(FALSE, <<>>, 0)
            ELSE Finite(o.v < 0,
                        StripTrailingZeros(NatToStr(IF o.v < 0 THEN -o.v ELSE o.v)),
                        Len(NatToStr(IF o.v < 0 THEN -o.v ELSE o.v)))
      [] o.t = "bool" ->
            IF o.v THEN Finite(FALSE, <<"1">>, 1) ELSE Finite(FALSE, <<>>, 0)

RECURSIVE PyEq(_, _)
PyEq(a, b) ==
    IF IsNumber(a) /\ IsNumber(b)
    THEN ~IsNaN(a) /\ ~IsNaN(b) /\ Decimal(a) = Decimal(b)
    ELSE IF a.t # b.t THEN FALSE
    ELSE CASE a.t = "null" -> TRUE
           [] a.t = "str" -> a.v = b.v
           [] a.t = "list" ->
                 /\ Len(a.v) = Len(b.v)
                 /\ \A i \in 1..Len(a.v) :
                       (IsNaN(a.v[i]) /\ IsNaN(b.v[i])) \/ PyEq(a.v[i], b.v[i])
           [] a.t = "dict" ->
                 /\ Len(a.v) = Len(b.v)
                 /\ \A i \in 1..Len(a.v) : \E j \in 1..Len(b.v) :
                       /\ a.v[i][1] = b.v[j][1]
                       /\ \/ IsNaN(a.v[i][2]) /\ IsNaN(b.v[j][2])
                          \/ PyEq(a.v[i][2], b.v[j][2])

\* C18: formatting round-trips: for every text that validate accepts and
\* every indent and sort_keys, the formatted text parses to a value equal to
\* the value the text parses to.
C18_RoundTrip ==
    (last.op = "format again") =>
        /\ last.out.self._parsed_data # None
        /\ PyEq(last.out.self._parsed_data[1], last.parsed)

\* a before b in lexicographic order of code points
LexBefore(a, b) ==
    \E i \in 1..Len(b) :
        /\ \A j \in 1..(i - 1) : j <= Len(a) /\ a[j] = b[j]
        /\ i > Len(a) \/ ord(a[i]) < ord(b[i])

\* the keys of every object of a value are in ascending order
RECURSIVE KeysAscending(_)
KeysAscending(o) ==
    CASE o.t = "dict" ->
            /\ \A i \in 1..(Len(o.v) - 1) : LexBefore(o.v[i][1], o.v[i + 1][1])
            /\ \A i \in 1..Len(o.v) : KeysAscending(o.v[i][2])
      [] o.t = "list" -> \A i \in 1..Len(o.v) : KeysAscending(o.v[i])
      [] OTHER -> TRUE

\* the keys of the members of an object as its text writes them, from the
\* first member at i on
RECURSIVE RfcMemberKeys(_, _)
RfcMemberKeys(s, i) ==
    LET k == RfcString(s, i)
        e == RfcValue(s, RfcWs(s, RfcWs(s, k) + 1))
        j == RfcWs(s, e)
    IN  IF RfcAt(s, i) # "\"" \/ k = 0 \/ e = 0 THEN <<>>
        ELSE <<SubSeq(s, i + 1, k - 2)>>
             \o (IF RfcAt(s, j) = "," THEN RfcMemberKeys(s, RfcWs(s, j + 1)) ELSE <<>>)

\* a sequence without the repetitions of its earlier elements
RECURSIVE FirstOccurrences(_)
FirstOccurrences(keys) ==
    IF keys = <<>> THEN <<>>
    ELSE LET init == FirstOccurrences(SubSeq(keys, 1, Len(keys) - 1))
         IN  IF \E i \in 1..Len(init) : init[i] = keys[Len(keys)] THEN init
             ELSE Append(init, keys[Len(keys)])

\* the keys of a parsed object, in its order
KeysOf(o) == [i \in 1..Len(o.v) |-> o.v[i][1]]

\* C19: with sort_keys = true the keys of every object of the formatted
\* text, at every level, are in ascending lexicographic order; with sort_keys
\* = false the keys of every object are in the order in which the input
\* first has them.
C19_KeyOrder ==
    (last.op = "format" /\ last.out.val[1].success) =>
        LET written == loads(last.out.val[1].formatted_json[1])
            start == RfcWs(last.raw, 1)
        IN  /\ written.ok
            /\ last.sort_keys => KeysAscending(written.val)
            /\ ~last.sort_keys =>
                  /\ written.val = doc._parsed_data[1]
                  /\ RfcAt(last.raw, start) = "{" =>
                        KeysOf(written.val) =
                            FirstOccurrences(RfcMemberKeys(last.raw, RfcWs(last.raw, start + 1)))

\* C19 witness: an object with keys b and a, the value of b an object with
\* keys b and a, was formatted with sorted keys.
C19_Witness ==
    /\ last.op = "format"
    /\ last.sort_keys
    /\ last.raw = <<"{", "\"", "b", "\"", ":">> \o SmallObjectText
                  \o <<",", "\"", "a", "\"", ":", "1", "}">>
    /\ last.out.val[1].success

\* the number of elements of the array whose first element, if any, is at i
RECURSIVE RfcElementCount(_, _)
RfcElementCount(s, i) ==
    LET e == RfcValue(s, i)
        j == RfcWs(s, e)
    IN  IF e = 0 THEN 0
        ELSE 1 + (IF RfcAt(s, j) = "," THEN RfcElementCount(s, RfcWs(s, j + 1)) ELSE 0)

\* the first ten elements of a list
FirstTen(xs) == SubSeq(xs, 1, IF Len(xs) < 10 THEN Len(xs) ELSE 10)

\* C20: for every valid array the analyzer reports item_count = the number
\* of elements, and item_types depends on the first 10 elements only: every
\* array with the same first 10 elements gets the same item_types.
C20_ItemTypesOfFirstTen ==
    (last.op = "get_structure_info" /\ IsJsonText(last.raw)
        /\ RfcAt(last.raw, RfcWs(last.raw, 1)) = "[") =>
        LET info == last.out.val[1]
            start == RfcWs(last.raw, 1)
        IN  /\ info.valid /\ info.is_array
            /\ info.item_count = RfcElementCount(last.raw, RfcWs(last.raw, start + 1))
            /\ \A s \in ArrayTexts \cup LongArrayTexts :
                  LET other == get_structure_info(JSONData(s, None, None))
                  IN  FirstTen(other.self._parsed_data[1].v) = FirstTen(doc._parsed_data[1].v)
                         => other.val[1].item_types = info.item_types

\* C20 witness: an array of ten numbers and a boolean was analyzed: eleven
\* items, and int the only type.
C20_Witness ==
    /\ last.op = "get_structure_info"
    /\ last.raw = <<"[">> \o JoinTexts(Repeat(<<"1">>, 10) \o <<<<"t", "r", "u", "e">>>>, <<",">>)
                  \o <<"]">>
    /\ last.out.val[1].item_count = 11
    /\ last.out.val[1].item_types = {"int"}

-----------------------------------------------------------------------------
(* Properties of the analyzer's type names *)

JsonTypeNames == {"string", "integer", "number", "boolean", "null", "array", "object"}

\* C21: every name in the item_types the analyzer reports for an array is a
\* JSON type name, and item_types holds exactly the JSON type names of the
\* sampled elements (integer for 1, null for null, object for {}).
C21_ItemTypesAreJsonTypeNames ==
    (last.op = "get_structure_info" /\ last.out.val[1].valid) =>
        (last.out.val[1].is_array =>
            /\ last.out.val[1].item_types \subseteq JsonTypeNames
            /\ last.out.val[1].item_types =
                  {get_json_type_name(FirstTen(doc._parsed_data[1].v)[i]) :
                      i \in DOMAIN FirstTen(doc._parsed_data[1].v)})

-----------------------------------------------------------------------------
(* CommentService on texts: save_comments, load_comments, clear_comments,  *)
(* and the store's get_session_count and get_all_session_ids               *)

\* [comment for comment in comments_list if comment]
RECURSIVE NonEmptyOnly(_)
NonEmptyOnly(xs) ==
    IF xs = <<>> THEN <<>>
    ELSE IF Falsy(Head(xs)) THEN NonEmptyOnly(Tail(xs))
    ELSE <<Head(xs)>> \o NonEmptyOnly(Tail(xs))

\* [line.strip() for line in comments_text.splitlines()]
StrippedLines(text) ==
    [i \in 1..Len(splitlines(text)) |-> Strip(splitlines(text)[i])]

\* mutant: the lines that are empty after stripping are kept
CommentsList_keep_empty(text) ==
    IF ~Falsy(Strip(text)) THEN StrippedLines(text) ELSE <<>>

\* comments_list of CommentService.save_comments
CommentsList(text) ==
    IF ~Falsy(Strip(text)) THEN NonEmptyOnly(StrippedLines(text)) ELSE <<>>

\* the result of a storage call, as the service reports it
Reported(r) ==
    [storage |-> r.storage, ret |-> IF r.ret THEN "True" ELSE "ProcessingError"]

\* CommentService.save_comments(session_id, comments_text); a text that is
\* no str has no strip(): the AttributeError becomes a ProcessingError
CommentService_save_comments(st, sid, comments_text) ==
    IF BadSessionId(sid) THEN [storage |-> st, ret |-> "ValidationError"]
    ELSE IF comments_text.t = "None" THEN [storage |-> st, ret |-> "ValidationError"]
    ELSE IF comments_text.t # "str" THEN [storage |-> st, ret |-> "ProcessingError"]
    ELSE Reported(save_comments(st, sid, StrList(CommentsList(comments_text.v))))

\* "\n".join(comments_list)
RECURSIVE JoinLines(_)
JoinLines(xs) ==
    IF xs = <<>> THEN <<>>
    ELSE IF Len(xs) = 1 THEN xs[1]
    ELSE xs[1] \o <<"\n">> \o JoinLines(Tail(xs))

\* CommentService.load_comments(session_id)
CommentService_load_comments(st, sid) ==
    IF BadSessionId(sid) THEN [ret |-> "ValidationError", val |-> <<>>]
    ELSE [ret |-> "str", val |-> JoinLines(load_comments(st, sid))]

\* CommentService.clear_comments(session_id)
CommentService_clear_comments(st, sid) ==
    IF BadSessionId(sid) THEN [storage |-> st, ret |-> "ValidationError"]
    ELSE Reported(clear_comments(st, sid))

\* get_session_count(): len(self._storage)
get_session_count(st) == Cardinality(DOMAIN st)

\* get_all_session_ids(): list(self._storage.keys()), each key once
get_all_session_ids(st) == DOMAIN st

-----------------------------------------------------------------------------
(* APIRoutes.format_json: the /format request handler *)

\* _create_error_response(error_code, error_message) and the status code
ErrorResponse(status, error_code) ==
    [status |-> status, success |-> FALSE, error_code |-> error_code, line_count |-> 0]

\* format_json(): the text taken from the request, the call of the JSON
\* service, and the response; the handler calls nothing else
api_format_json(json_data, indent, sort_keys) ==
    IF json_data.t = "None" THEN ErrorResponse(400, "VALIDATION_ERROR")
    ELSE IF json_data.t = "str" /\ Falsy(json_data.v)
    THEN ErrorResponse(400, "VALIDATION_ERROR")
    ELSE IF json_data.t # "str" THEN ErrorResponse(400, "VALIDATION_ERROR")
    ELSE LET response(f) ==
                 IF f.raised
                 THEN IF f.exc = "ValidationError"
                      THEN ErrorResponse(400, "VALIDATION_ERROR")
                      ELSE ErrorResponse(500, "PROCESSING_ERROR")
                 ELSE [status |-> IF f.val[1].success THEN 200 ELSE 400,
                       success |-> f.val[1].success, error_code |-> "",
                       line_count |-> f.val[1].line_count]
         IN  response(format_json(json_data, PyInt(indent), sort_keys))

-----------------------------------------------------------------------------
(* Requests to the comment service and to the format handler, one at a     *)
(* time, on the sessions of one store                                     *)

\* the texts of comments: empty, blank, one line, lines with blank lines
\* between them, surrounding whitespace, and the line ends \n, \r\n, \r,
\* form feed and U+2028
CommentTexts == {
    <<>>, <<" ">>, <<"\n">>, <<" ", "\n", "\t">>,
    <<"a">>, <<" ", "a", "\t">>, <<"a", " ", "b">>,
    <<"a", "\n", "b">>, <<"a", "\n", "\n", "b">>, <<"a", "\n", " ", "\n", "b", "\n">>,
    <<" ", "a", " ", "\n", "\t", "b", " ">>, <<"a", "\r", "\n", "b">>,
    <<"a", "\r", "b">>, <<"a", "\f", "b">>, <<"a", "LS", "b">> }

\* the comments_text argument: a text, None, and a value that is no text
CommentArgs == {PyStr(t) : t \in CommentTexts} \cup {PyNone, PyInt(1)}

\* the json_data of a format request
RequestTexts == {PyStr(<<"1">>), PyStr(<<"[", "1", "]">>), PyStr(<<"[", "1", ",">>),
                 PyStr(<<>>), PyNone}

\* the indent of a request that names none
DefaultIndent == 2

ServiceSave(sid, comments_text) ==
    LET r == CommentService_save_comments(storage, sid, comments_text)
    IN  /\ storage' = r.storage
        /\ last' = Call("service save", sid, comments_text, r.ret, <<>>,
                        load_comments(storage, sid), "none")
        /\ UNCHANGED <<thr, doc>>

ServiceLoad(sid) ==
    LET r == CommentService_load_comments(storage, sid)
    IN  /\ last' = Call("service load", sid, PyNone, r.ret, r.val,
                        load_comments(storage, sid), "none")
        /\ UNCHANGED <<storage, thr, doc>>

\* the caller saves the text that load_comments has just returned
ServiceSaveLoaded ==
    /\ last.op = "service load"
    /\ last.ret = "str"
    /\ LET r == CommentService_save_comments(storage, last.sid, PyStr(last.val))
       IN  /\ storage' = r.storage
           /\ last' = Call("service save loaded", last.sid, PyStr(last.val), r.ret, <<>>,
                           load_comments(storage, last.sid), "none")
    /\ UNCHANGED <<thr, doc>>

ServiceClear(sid) ==
    LET r == CommentService_clear_comments(storage, sid)
    IN  /\ storage' = r.storage
        /\ last' = Call("service clear", sid, PyNone, r.ret, <<>>,
                        load_comments(storage, sid), "none")
        /\ UNCHANGED <<thr, doc>>

\* get_session_count() and get_all_session_ids()
StorageCount ==
    /\ last' = Call("count", EmptySid, PyNone, "int",
                    [count |-> get_session_count(storage),
                     ids |-> get_all_session_ids(storage)], <<>>, "none")
    /\ UNCHANGED <<storage, thr, doc>>

\* a /format request of the session sid
ApiFormat(sid, json_data, sort_keys) ==
    /\ last' = Call("api format", sid, json_data, "response",
                    api_format_json(json_data, DefaultIndent, sort_keys),
                    load_comments(storage, sid), "none")
    /\ UNCHANGED <<storage, thr, doc>>

ServiceInit ==
    /\ storage = <<>>
    /\ last = NoCall
    /\ thr = ThrIdle
    /\ doc = DocIdle

ServiceNext ==
    \/ \E sid \in ServiceSids, c \in CommentArgs : ServiceSave(sid, c)
    \/ \E sid \in ServiceSids : ServiceLoad(sid)
    \/ ServiceSaveLoaded
    \/ \E sid \in ServiceSids : ServiceClear(sid)
    \/ \E sid \in ServiceSids, n \in -1..MaxLen : Synchronize(sid, n)
    \/ StorageCount
    \/ \E sid \in {SidA, SidB}, j \in RequestTexts, sort_keys \in BOOLEAN :
          ApiFormat(sid, j, sort_keys)

ServiceSpec == ServiceInit /\ [][ServiceNext]_vars

-----------------------------------------------------------------------------
(* Properties of the comment service *)

\* the index of the first line boundary of s, or 0
RECURSIVE FirstBoundary(_, _)
FirstBoundary(s, i) ==
    IF i > Len(s) THEN 0
    ELSE IF IsLineBoundary(s[i]) THEN i
    ELSE FirstBoundary(s, i + 1)

\* the pieces of s between its line boundaries
RECURSIVE LinesOf(_)
LinesOf(s) ==
    IF FirstBoundary(s, 1) = 0 THEN <<s>>
    ELSE <<SubSeq(s, 1, FirstBoundary(s, 1) - 1)>>
         \o LinesOf(SubSeq(s, FirstBoundary(s, 1) + 1, Len(s)))

\* a line without its leading and trailing whitespace
Trimmed(line) ==
    LET inside == {i \in 1..Len(line) : ~IsSpace(line[i])}
    IN  IF inside = {} THEN <<>>
        ELSE SubSeq(line, CHOOSE i \in inside : \A j \in inside : i <= j,
                          CHOOSE i \in inside : \A j \in inside : j <= i)

\* the trimmed lines of s that are not empty, in order
RECURSIVE TrimmedLines(_)
TrimmedLines(lines) ==
    IF lines = <<>> THEN <<>>
    ELSE IF Trimmed(Head(lines)) = <<>> THEN TrimmedLines(Tail(lines))
    ELSE <<Trimmed(Head(lines))>> \o TrimmedLines(Tail(lines))

\* C22: after CommentService.save_comments(sid, t) succeeded for a text t,
\* the stored sequence is the lines of t, each trimmed, without the lines
\* that are empty after trimming, in order; no stored entry is empty or has
\* surrounding whitespace, and a whitespace-only t stores the empty sequence.
C22_SaveStoresTrimmedLines ==
    (last.op = "service save" /\ last.ret = "True") =>
        /\ ~Falsy(last.sid)
        /\ last.sid \in DOMAIN storage
        /\ storage[last.sid] = TrimmedLines(LinesOf(last.arg.v))
        /\ \A i \in 1..Len(storage[last.sid]) :
              /\ storage[last.sid][i] # <<>>
              /\ ~IsSpace(storage[last.sid][i][1])
              /\ ~IsSpace(storage[last.sid][i][Len(storage[last.sid][i])])
        /\ (\A i \in 1..Len(last.arg.v) : IsSpace(last.arg.v[i])) => storage[last.sid] = <<>>

\* C22 witness: a text of two lines with surrounding whitespace and a blank
\* line between them replaced a stored sequence by the two trimmed lines.
C22_Witness ==
    /\ last.op = "service save" /\ last.ret = "True" /\ last.sid = SidA
    /\ last.arg = PyStr(<<"a", "\n", " ", "\n", "b", "\n">>)
    /\ last.before = << <<"a", " ", "b">>, <<>> >>
    /\ storage[SidA] = << <<"a">>, <<"b">> >>

\* a session id that is empty or made of whitespace only
BlankId(sid) == \A i \in 1..Len(sid) : IsSpace(sid[i])

\* the call that has just returned had an input that validation refuses
RefusedInput(call) ==
    \/ call.op \in {"sync", "service save", "service clear"} /\ BlankId(call.sid)
    \/ call.op = "sync" /\ call.arg.v < 0
    \/ call.op = "service save" /\ call.arg = PyNone

\* C23: synchronize with a negative target, save, clear and synchronize with
\* an empty or whitespace-only session id, and save with an absent text fail
\* with a validation error and leave every session's stored sequence as it
\* was.
C23_ValidationBeforeStorage ==
    [][RefusedInput(last') => (last'.ret = "ValidationError" /\ storage' = storage)]_vars

\* C23 witness: a synchronize with target -1 was refused for a session that
\* holds two comments, and they are still stored.
C23_Witness ==
    /\ last.op = "sync" /\ last.sid = SidA /\ last.arg = PyInt(-1)
    /\ last.ret = "ValidationError"
    /\ last.before = << <<"a">>, <<"b">> >>
    /\ storage[SidA] = last.before

\* C25: after a format request of a session completed successfully with
\* line count n, the number of comments stored for the session is n.
C25_CommentsFollowLineCount ==
    (last.op = "api format" /\ last.val.success) =>
        Len(load_comments(storage, last.sid)) = last.val.line_count

\* C28: saving back the text that load_comments returned for a session
\* leaves the stored sequence of the session as it was: the same entries,
\* the same count.
C28_LoadSaveRoundTrip ==
    (last.op = "service save loaded") =>
        /\ last.ret = "True"
        /\ load_comments(storage, last.sid) = last.before

\* the session ids for which session_exists returns true
ExistingSessions == {sid \in ServiceSids \cup DOMAIN storage : session_exists(storage, sid)}

\* C29: get_session_count() is the number of session ids for which
\* session_exists returns true, and get_all_session_ids() lists exactly
\* those ids.
C29_CountIsExistingSessions ==
    /\ get_session_count(storage) = Cardinality(ExistingSessions)
    /\ get_all_session_ids(storage) = ExistingSessions
    /\ (last.op = "count") =>
          /\ last.val.count = Cardinality(ExistingSessions)
          /\ last.val.ids = ExistingSessions

-----------------------------------------------------------------------------
(* Properties of the failure kinds *)

\* the calls of format_json, whatever the indent
FormatJsonOps == {"format_json", "format_json, indent not an int"}

\* the kind format_json reports a syntax error with
SyntaxErrorKind == "ValidationError"

-----------------------------------------------------------------------------
(* Properties of process_json_safely *)

StepPrefixes ==
    {<<>>, <<"validation">>, <<"validation", "formatting">>,
     <<"validation", "formatting", "analysis">>}

Recorded(r, step) == \E i \in 1..Len(r.processing_steps) : r.processing_steps[i] = step

\* C26: process_json_safely never raises; processing_steps is a prefix of
\* [validation, formatting, analysis]; formatting is recorded only if
\* validation reported is_valid = true, analysis only if formatting
\* succeeded; success is true exactly when all three steps are recorded, and
\* error_message is present exactly when success is false.
C26_StepsInOrder ==
    (last.op = "process_json_safely") =>
        /\ ~last.out.raised
        /\ last.out.val[1].processing_steps \in StepPrefixes
        /\ Recorded(last.out.val[1], "formatting") =>
              /\ last.out.val[1].validation[1].is_valid
              /\ validate_result(last.arg.v).result.is_valid
        /\ Recorded(last.out.val[1], "analysis") =>
              /\ last.out.val[1].formatted_json[1].success
              /\ last.out.val[1].structure_info # None
        /\ last.out.val[1].success <=> Len(last.out.val[1].processing_steps) = 3
        /\ (last.out.val[1].error_message # None) <=> ~last.out.val[1].success

\* C26 witness: a text that is not valid stopped after the validation step,
\* with the validator's message.
C26_Witness ==
    /\ last.op = "process_json_safely"
    /\ last.arg = PyStr(<<"[", "1", ",", "]">>)
    /\ last.out.val[1].processing_steps = <<"validation">>
    /\ ~last.out.val[1].success
    /\ last.out.val[1].error_message = last.out.val[1].validation[1].error_message
    /\ last.out.val[1].error_message # None

-----------------------------------------------------------------------------
(* synchronize_with_json_lines concurrent with a save of the same session. *)
(* The store holds some comments, or none, for the session SidA; one       *)
(* request thread saves a list, the other synchronizes.  A step is one     *)
(* access to the _storage dict with the thread-local work around it.       *)

Syncer == "sync"
SyncThreads == {"save1", Syncer}

\* the synchronizing thread: position, json_line_count, the list it built
\* from current_comments, and its result
SyncThread(pc, n, clean, ret) == [pc |-> pc, n |-> n, clean |-> clean, ret |-> ret]

\* the checks, self.storage.load_comments(session_id), and the padded or
\* truncated list built from what was loaded
SyncLoad(n) ==
    /\ thr[Syncer].pc = "idle"
    /\ thr' = [thr EXCEPT ![Syncer] =
                  IF BadSessionId(SidA) \/ n < 0
                  THEN SyncThread("done", n, <<>>, "ValidationError")
                  ELSE IF Len(load_comments(storage, SidA)) = n
                  THEN SyncThread("done", n, <<>>, "True")
                  ELSE IF Len(load_comments(storage, SidA)) < n
                  THEN SyncThread("loaded", n, PadComments(load_comments(storage, SidA), n),
                                  "None")
                  ELSE SyncThread("loaded", n,
                                  TruncateComments(load_comments(storage, SidA), n), "None")]
    /\ UNCHANGED <<storage, last, doc>>

\* self.storage.save_comments(session_id, padded_comments or
\* truncated_comments), and the return
SyncSave ==
    /\ thr[Syncer].pc = "loaded"
    /\ LET r == SyncSaved(save_comments(storage, SidA, StrList(thr[Syncer].clean)))
       IN  /\ storage' = r.storage
           /\ thr' = [thr EXCEPT ![Syncer] =
                         SyncThread("done", thr[Syncer].n, thr[Syncer].clean, r.ret)]
    /\ UNCHANGED <<last, doc>>

\* what the session holds before the two requests: nothing, or a saved list
StoredBefore ==
    {<<>>} \cup {[k \in {SidA} |-> CleanComments(c.v)] : c \in StrLists}

SyncConcInit ==
    /\ storage \in StoredBefore
    /\ last = NoCall
    /\ thr = [t \in SyncThreads |->
                 IF t = Syncer THEN SyncThread("idle", 0, <<>>, "None") ELSE ThreadIdle]
    /\ doc = DocIdle

SyncConcNext ==
    \/ \E c \in StrLists : SaveBegin("save1", c)
    \/ SaveAssign("save1")
    \/ \E n \in 0..MaxLen : SyncLoad(n)
    \/ SyncSave

SyncConcSpec == SyncConcInit /\ [][SyncConcNext]_vars

\* L padded or truncated to n entries
PaddedOrTruncated(L, n) ==
    [i \in 1..n |-> IF i <= Len(L) THEN L[i] ELSE <<>>]

\* C27: once a synchronize to n and a save of L of the same session have
\* both returned, the stored sequence is L or L padded or truncated to n
\* entries, as running the two one after the other would leave it.
C27_SyncKeepsConcurrentSave ==
    (thr["save1"].pc = "done" /\ thr[Syncer].pc = "done") =>
        /\ SidA \in DOMAIN storage
        /\ storage[SidA] \in {thr["save1"].clean,
                              PaddedOrTruncated(thr["save1"].clean, thr[Syncer].n)}

-----------------------------------------------------------------------------
(* Properties of the legacy JSONProcessor *)

\* C30: for every string that JSONProcessor.validate_json accepts,
\* parse_json returns success = true, the parsed value and an empty
\* error_message; for every other input success = false and a non-empty
\* error_message; get_json_info succeeds on exactly the same inputs.
C30_ParseSucceedsIffValid ==
    /\ (last.op = "JSONProcessor.parse_json") =>
          IF JSONProcessor_validate_json(last.arg).is_valid
          THEN /\ last.out.success
               /\ last.out.data = loads(last.arg.v).val
               /\ last.out.error_message.text = ""
          ELSE /\ ~last.out.success
               /\ last.out.error_message.text # ""
    /\ (last.op = "JSONProcessor.get_json_info") =>
          (last.out.success <=> JSONProcessor_validate_json(last.arg).is_valid)

=============================================================================
